---- MODULE Spec2Model ----
(***************************************************************************)
(* Transit schedule resolution of the Val Gardena dashboard                *)
(* (val_gardena_app.py): calendar resolver, destination resolver, station  *)
(* consolidator and the station departure board with its dedup pass.       *)
(*                                                                         *)
(* Tables (pandas DataFrames) are sequences of records where the code      *)
(* depends on row order and sets of records where it only filters them.    *)
(* Text that the code trims or orders is a sequence of one-character       *)
(* strings; NaN is the missing value pandas puts in a cell.                *)
(***************************************************************************)
EXTENDS Integers, Sequences, FiniteSets, TLC

VARIABLES
    pc,                 \* which operation ran last
    stops,              \* stops_df: sequence of stop rows
    routes,             \* routes_df: sequence of route rows
    trips,              \* trips_df: sequence of trip rows
    stop_times,         \* stop_times_df: sequence of stop-time rows
    calendar,           \* calendar_df: set of weekly service rows
    calendar_dates,     \* calendar_dates_df: set of exception rows
    target_date,        \* argument of the last get_active_service_ids call
    active,             \* its result
    trip_destinations,  \* result of compute_trip_destinations
    stations,           \* result of consolidate_stops
    query,              \* arguments of the last get_station_schedule call
    schedule,           \* its result
    display,            \* the rows the dashboard lists
    result,             \* outcome of the last call of a query function
    gtfs_api,           \* what the GTFS API serves: status and zip archive
    disk,               \* the six CSV files of the data directory
    cache,              \* the st.cache_data entry of load_data
    session,            \* the script run of each browser session
    now,                \* the clock, in hours
    downloads           \* number of feed downloads made so far

vars == <<pc, stops, routes, trips, stop_times, calendar, calendar_dates,
          target_date, active, trip_destinations, stations, query, schedule,
          display, result, gtfs_api, disk, cache, session, now, downloads>>

reloadVars == <<gtfs_api, disk, cache, session, now, downloads>>

calVars == <<calendar, calendar_dates, target_date, active>>
destVars == <<trip_destinations>>
stationVars == <<stations>>
schedVars == <<query, schedule, display, result>>
feedVars == <<stops, routes, trips, stop_times>>

\* The missing value of a pandas cell; never equal to a text value.
NaN == <<"NaN">>

None == <<"None">>

(***************************************************************************)
(* Generic helpers                                                         *)
(***************************************************************************)
SubsetsUpTo(S, n) == {T \in SUBSET S : Cardinality(T) <= n}

Range(f) == {f[i] : i \in DOMAIN f}

(***************************************************************************)
(* Calendar resolver                                                       *)
(***************************************************************************)
MaxCalRows == 2
MaxExceptions == 2

ServiceIds == {"SVC1", "SVC2"}

\* Dates the resolver is asked about: Fri 31 May .. Sun 2 Jun 2024.
Dates == {<<2024, 5, 31>>, <<2024, 6, 1>>, <<2024, 6, 2>>}

\* target_date.strftime('%Y%m%d') read as an integer.
DateInt(d) == d[1] * 10000 + d[2] * 100 + d[3]

\* target_date.strftime('%A').lower(): the weekday of the Gregorian date.
DayNames == <<"sunday", "monday", "tuesday", "wednesday", "thursday",
              "friday", "saturday">>

MonthOffset == <<0, 3, 2, 5, 0, 3, 5, 1, 4, 6, 2, 4>>

DayName(d) ==
    LET y == IF d[2] < 3 THEN d[1] - 1 ELSE d[1]
        w == (y + (y \div 4) - (y \div 100) + (y \div 400)
                + MonthOffset[d[2]] + d[3]) % 7
    IN DayNames[w + 1]

WeekdaysOnly == [monday |-> 1, tuesday |-> 1, wednesday |-> 1, thursday |-> 1,
                 friday |-> 1, saturday |-> 0, sunday |-> 0]
WeekendOnly == [monday |-> 0, tuesday |-> 0, wednesday |-> 0, thursday |-> 0,
                friday |-> 0, saturday |-> 1, sunday |-> 1]

\* Validity ranges of the calendar rows, as YYYYMMDD integers.
ValidityRanges == {<<20240531, 20240601>>, <<20240601, 20240601>>,
                   <<20240601, 20240602>>}

CalendarRow(s, days, range) ==
    [service_id |-> s, start_date |-> range[1], end_date |-> range[2]] @@ days

CalendarRows ==
    {CalendarRow(s, days, range) :
        s \in ServiceIds, days \in {WeekdaysOnly, WeekendOnly},
        range \in ValidityRanges}

ExceptionRows ==
    [service_id : ServiceIds, date : {DateInt(d) : d \in Dates},
     exception_type : {1, 2}]

\* Faulty variant: the exceptions applied in the other order (REMOVED, then ADDED).
ApplyExceptionsAddedLast(base, added, removed) == (base \ removed) \cup added

\* (active | added) - removed of get_active_service_ids
ApplyExceptions(base, added, removed) == (base \cup added) \ removed

\* Faulty variant: the end of the validity range taken as exclusive.
InValidityExclusiveEnd(row, date_int) ==
    row.start_date <= date_int /\ row.end_date > date_int

\* The validity test of one calendar row.
InValidity(row, date_int) ==
    row.start_date <= date_int /\ row.end_date >= date_int

get_active_service_ids(calendar_df, calendar_dates_df, date) ==
    LET day_name == DayName(date)
        date_int == DateInt(date)
        base == {row.service_id :
                    row \in {r \in calendar_df :
                                r[day_name] = 1 /\ InValidity(r, date_int)}}
        exceptions == {e \in calendar_dates_df : e.date = date_int}
        added == {e.service_id :
                    e \in {x \in exceptions : x.exception_type = 1}}
        removed == {e.service_id :
                    e \in {x \in exceptions : x.exception_type = 2}}
    IN ApplyExceptions(base, added, removed)

InitCalendar ==
    /\ pc = "loaded"
    /\ calendar \in SubsetsUpTo(CalendarRows, MaxCalRows)
    /\ calendar_dates \in SubsetsUpTo(ExceptionRows, MaxExceptions)
    /\ target_date = None
    /\ active = {}
    /\ stops = <<>> /\ routes = <<>> /\ trips = <<>> /\ stop_times = <<>>
    /\ trip_destinations = <<>>
    /\ stations = <<>>
    /\ query = None
    /\ schedule = <<>>
    /\ display = <<>>
    /\ result = None
    /\ gtfs_api = None /\ disk = <<>> /\ cache = None
    /\ session = <<>> /\ now = 0 /\ downloads = 0

GetActiveServiceIds ==
    \E d \in Dates :
        /\ target_date' = d
        /\ active' = get_active_service_ids(calendar, calendar_dates, d)
        /\ pc' = "active_services"
        /\ UNCHANGED <<calendar, calendar_dates>>
        /\ UNCHANGED <<feedVars, destVars, stationVars, schedVars>>
        /\ UNCHANGED reloadVars

NextCalendar == GetActiveServiceIds

SpecCalendar == InitCalendar /\ [][NextCalendar]_vars

\* The weekdays of the dates asked about, from the 2024 calendar.
WeekdayOf(d) ==
    CASE d = <<2024, 5, 31>> -> "friday"
      [] d = <<2024, 6, 1>> -> "saturday"
      [] d = <<2024, 6, 2>> -> "sunday"
      [] d = <<2024, 6, 3>> -> "monday"
      [] d = <<2024, 6, 4>> -> "tuesday"

KnownServiceIds ==
    {r.service_id : r \in calendar} \cup {e.service_id : e \in calendar_dates}

HasException(s, d, kind) ==
    \E e \in calendar_dates :
        e.service_id = s /\ e.date = d /\ e.exception_type = kind

RunsWeekly(s, date) ==
    \E r \in calendar :
        /\ r.service_id = s
        /\ r[WeekdayOf(date)] = 1
        /\ r.start_date <= DateInt(date)
        /\ DateInt(date) <= r.end_date

\* C1: the result of get_active_service_ids for date d is exactly the set of
\* services with no REMOVED exception dated d that have an ADDED exception
\* dated d or a calendar row whose flag of d's weekday is 1 and whose
\* validity range contains d (both ends inclusive); exceptions dated another
\* day do not enter the result.
C1_ActiveServicesExact ==
    pc = "active_services" =>
        active = {s \in KnownServiceIds :
                    /\ ~HasException(s, DateInt(target_date), 2)
                    /\ \/ HasException(s, DateInt(target_date), 1)
                       \/ RunsWeekly(s, target_date)}

\* A service is active on the last day of its validity range while the
\* exception table holds only exceptions dated another day.
C1_Witness ==
    /\ pc = "active_services"
    /\ calendar_dates # {}
    /\ \A e \in calendar_dates : e.date # DateInt(target_date)
    /\ \E r \in calendar :
            /\ r.end_date = DateInt(target_date)
            /\ r.start_date < r.end_date
            /\ r[WeekdayOf(target_date)] = 1
            /\ r.service_id \in active

\* C2: a service with both an ADDED and a REMOVED exception dated d is not
\* active on d, whatever its weekly pattern and validity range.
C2_RemovedWinsOverAdded ==
    pc = "active_services" =>
        \A s \in ServiceIds :
            (HasException(s, DateInt(target_date), 1)
                /\ HasException(s, DateInt(target_date), 2))
            => s \notin active

\* A service that runs weekly on d and has both exceptions dated d.
C2_Witness ==
    /\ pc = "active_services"
    /\ \E s \in ServiceIds :
            /\ HasException(s, DateInt(target_date), 1)
            /\ HasException(s, DateInt(target_date), 2)
            /\ RunsWeekly(s, target_date)
            /\ s \notin active

(***************************************************************************)
(* Text                                                                    *)
(***************************************************************************)
Whitespace == {" "}

RECURSIVE LStrip(_)
LStrip(s) ==
    IF s # <<>> /\ Head(s) \in Whitespace THEN LStrip(Tail(s)) ELSE s

RECURSIVE RStrip(_)
RStrip(s) ==
    IF s # <<>> /\ s[Len(s)] \in Whitespace
    THEN RStrip(SubSeq(s, 1, Len(s) - 1))
    ELSE s

\* str.strip()
Strip(s) == RStrip(LStrip(s))

Digits == <<"0", "1", "2", "3", "4", "5", "6", "7", "8", "9">>

\* A wall-clock time as the feed writes it: fixed-width HH:MM:SS text.
TimeText(h, m, sec) ==
    <<Digits[(h \div 10) + 1], Digits[(h % 10) + 1], ":",
      Digits[(m \div 10) + 1], Digits[(m % 10) + 1], ":",
      Digits[(sec \div 10) + 1], Digits[(sec % 10) + 1]>>

(***************************************************************************)
(* Destination resolver                                                    *)
(***************************************************************************)
MaxTrips == 4
MaxStopTimes == 4

RouteIds == {"R1", "R2"}

NameA == <<"A">>
NameB == <<"B">>
NameC == <<"C">>
HeadX == <<"X">>
HeadY == <<"Y">>

\* Declared headsigns: missing, whitespace only, or one of two texts.
Headsigns == {NaN, <<" ">>, HeadX, HeadY}

\* stops_df of the destination resolver; S4 is referenced by stop-times only.
StopTable ==
    << [stop_id |-> "S1", stop_name |-> NameA, stop_lat |-> 0, stop_lon |-> 0],
       [stop_id |-> "S2", stop_name |-> NameB, stop_lat |-> 1, stop_lon |-> 0],
       [stop_id |-> "S3", stop_name |-> NameC, stop_lat |-> 0, stop_lon |-> 5] >>

StopIds == {"S1", "S2", "S3", "S4"}

TripRow(id, route, service, headsign) ==
    [trip_id |-> id, route_id |-> route, service_id |-> service,
     trip_headsign |-> headsign]

StopTimeRow(trip, stop, seq, dep) ==
    [trip_id |-> trip, stop_id |-> stop, stop_sequence |-> seq,
     departure_time |-> dep]

\* A numeric cell of a merged frame: the number, or missing.
Known(v) == {v}
MissingNumber == {}
ValueOf(cell) == CHOOSE v \in cell : TRUE

\* Python ==  on two cells: a missing value equals nothing, itself included.
PyEq(a, b) == a # NaN /\ b # NaN /\ a = b

\* stop_times_df.merge(stops_df[[...]], on='stop_id', how='left')
MergeStops(st_df, stops_df) ==
    [i \in DOMAIN st_df |->
        LET hit == {j \in DOMAIN stops_df : stops_df[j].stop_id = st_df[i].stop_id}
        IN IF hit = {}
           THEN st_df[i] @@ [stop_name |-> NaN, stop_lat |-> MissingNumber,
                            stop_lon |-> MissingNumber]
           ELSE LET j == CHOOSE k \in hit : \A l \in hit : k <= l
                IN st_df[i] @@ [stop_name |-> stops_df[j].stop_name,
                                stop_lat |-> Known(stops_df[j].stop_lat),
                                stop_lon |-> Known(stops_df[j].stop_lon)]]

\* group.sort_values('stop_sequence'); sequence numbers are distinct within
\* a trip.
SortBySequence(group) ==
    [i \in 1..Len(group) |->
        CHOOSE r \in Range(group) :
            Cardinality({x \in Range(group) :
                            x.stop_sequence < r.stop_sequence}) = i - 1]

\* Faulty variant: the distance to the origin without squaring.
DistUnsquared(row, first) ==
    IF MissingNumber \in {row.stop_lat, row.stop_lon, first.stop_lat, first.stop_lon}
    THEN MissingNumber
    ELSE Known((ValueOf(row.stop_lat) - ValueOf(first.stop_lat))
               + (ValueOf(row.stop_lon) - ValueOf(first.stop_lon)))

\* dlat ** 2 + dlon ** 2; missing when a coordinate is missing.
DistSq(row, first) ==
    IF MissingNumber \in {row.stop_lat, row.stop_lon, first.stop_lat, first.stop_lon}
    THEN MissingNumber
    ELSE LET dlat == ValueOf(row.stop_lat) - ValueOf(first.stop_lat)
             dlon == ValueOf(row.stop_lon) - ValueOf(first.stop_lon)
         IN Known(dlat * dlat + dlon * dlon)

\* dist_sq.idxmax(): the first position of the largest value, missing
\* values skipped.
IdxMax(dist) ==
    LET known == {i \in DOMAIN dist : dist[i] # MissingNumber}
        best == {i \in known :
                    \A j \in known : ValueOf(dist[j]) <= ValueOf(dist[i])}
    IN CHOOSE i \in best : \A j \in best : i <= j

\* first['stop_name'] == last['stop_name'] and len(ordered) > 2
IsCircular(ordered) ==
    /\ PyEq(ordered[1].stop_name, ordered[Len(ordered)].stop_name)
    /\ Len(ordered) > 2

\* Faulty variant: the last row of the group as the table lists it.
LastStopNameInRowOrder(ordered, group) == group[Len(group)].stop_name

\* last['stop_name'] of the rows in stop_sequence order
LastStopName(ordered, group) == ordered[Len(ordered)].stop_name

_geo_fallback(group) ==
    LET ordered == SortBySequence(group)
        first == ordered[1]
    IN IF IsCircular(ordered)
       THEN LET dist_sq == [i \in DOMAIN ordered |-> DistSq(ordered[i], first)]
            IN ordered[IdxMax(dist_sq)].stop_name
       ELSE LastStopName(ordered, group)

\* st_with_names.groupby('trip_id').apply(_geo_fallback): one geo_dest per
\* trip_id that has a stop-time row.
GeoDest(st_with_names) ==
    LET ids == {r.trip_id : r \in Range(st_with_names)}
    IN [t \in ids |->
           _geo_fallback(SelectSeq(st_with_names, LAMBDA r : r.trip_id = t))]

\* trip_headsign.notna() & (trip_headsign.str.strip() != '')
HasHeadsign(h) == h # NaN /\ Strip(h) # <<>>

\* Faulty variant: only a missing headsign counts as blank.
IsBlankMissingOnly(h) == h = NaN

\* trip_headsign.isna() | (trip_headsign.str.strip() == '')
IsBlank(h) == h = NaN \/ (h # NaN /\ Strip(h) = <<>>)

Count(values, v) == Cardinality({i \in DOMAIN values : values[i] = v})

\* Faulty variant: the first headsign met, whatever its frequency.
ModalValueFirstSeen(values) == values[1]

\* x.value_counts().index[0]: the most frequent value; among values of equal
\* count the one met first in the rows.
ModalValue(values) ==
    LET top == {i \in DOMAIN values :
                    \A j \in DOMAIN values :
                        Count(values, values[j]) <= Count(values, values[i])}
    IN values[CHOOSE i \in top : \A j \in top : i <= j]

\* has_hs.groupby('route_id')['trip_headsign'].agg(...): sibling_dest per
\* route that has a headsigned trip.
RouteHeadsign(trips_df) ==
    LET has_hs == SelectSeq(trips_df, LAMBDA t : HasHeadsign(t.trip_headsign))
        ids == {t.route_id : t \in Range(has_hs)}
    IN [r \in ids |->
           LET rows == SelectSeq(has_hs, LAMBDA t : t.route_id = r)
           IN ModalValue([i \in DOMAIN rows |-> rows[i].trip_headsign])]

\* Faulty variant: the sibling headsign used whenever the route has one.
UseSiblingAlways(blank, sibling_dest) == sibling_dest # NaN

\* use_sibling = blank & trip_dest['sibling_dest'].notna()
UseSibling(blank, sibling_dest) == blank /\ sibling_dest # NaN

\* Faulty variant: the trip table is inner-merged with the geo table, so a
\* trip without stop-times has no row.
compute_trip_destinations_inner(stop_times_df, stops_df, trips_df) ==
    LET st_with_names == MergeStops(stop_times_df, stops_df)
        geo == GeoDest(st_with_names)
        route_headsign == RouteHeadsign(trips_df)
        merged == SelectSeq(trips_df, LAMBDA t : t.trip_id \in DOMAIN geo)
    IN [i \in DOMAIN merged |->
           LET t == merged[i]
               sibling_dest == IF t.route_id \in DOMAIN route_headsign
                               THEN route_headsign[t.route_id] ELSE NaN
               blank == IsBlank(t.trip_headsign)
               use_sibling == UseSibling(blank, sibling_dest)
               still_blank == blank /\ ~use_sibling
           IN [trip_id |-> t.trip_id,
               destination |-> IF still_blank THEN geo[t.trip_id]
                               ELSE IF use_sibling THEN sibling_dest
                               ELSE t.trip_headsign]]

compute_trip_destinations(stop_times_df, stops_df, trips_df) ==
    LET st_with_names == MergeStops(stop_times_df, stops_df)
        geo == GeoDest(st_with_names)
        route_headsign == RouteHeadsign(trips_df)
    IN [i \in DOMAIN trips_df |->
           LET t == trips_df[i]
               geo_dest == IF t.trip_id \in DOMAIN geo THEN geo[t.trip_id] ELSE NaN
               sibling_dest == IF t.route_id \in DOMAIN route_headsign
                               THEN route_headsign[t.route_id] ELSE NaN
               blank == IsBlank(t.trip_headsign)
               use_sibling == UseSibling(blank, sibling_dest)
               still_blank == blank /\ ~use_sibling
           IN [trip_id |-> t.trip_id,
               destination |-> IF still_blank THEN geo_dest
                               ELSE IF use_sibling THEN sibling_dest
                               ELSE t.trip_headsign]]

DefaultTime == TimeText(7, 0, 0)

\* A two-stop run of trip i from S1; the terminus alternates by trip.
LinearRun(i) ==
    << StopTimeRow(i, "S1", 1, DefaultTime),
       StopTimeRow(i, IF i % 2 = 1 THEN "S2" ELSE "S3", 2, DefaultTime) >>

RECURSIVE RunsOf(_, _, _)
RunsOf(i, n, skip) ==
    IF i > n THEN <<>>
    ELSE (IF i = skip THEN <<>> ELSE LinearRun(i)) \o RunsOf(i + 1, n, skip)

SequenceOrders(n) ==
    {f \in [1..n -> 1..n] : \A i, j \in 1..n : i # j => f[i] # f[j]}

\* Feeds that vary the trip table: every trip has a two-stop run, but for
\* the last one, which may have no stop-time.
InitHeadsigns ==
    /\ \E n \in 0..MaxTrips :
        \E rs \in [1..n -> RouteIds], hs \in [1..n -> Headsigns], skip \in {0, n} :
            /\ trips = [i \in 1..n |-> TripRow(i, rs[i], "SVC1", hs[i])]
            /\ stop_times = RunsOf(1, n, skip)
    /\ stops = StopTable

\* Feeds that vary the stop-times of one trip with no headsign: any stops in
\* any stop_sequence order and any row order.
InitItinerary ==
    /\ trips = << TripRow(1, "R1", "SVC1", NaN) >>
    /\ \E n \in 1..MaxStopTimes :
        \E ss \in [1..n -> StopIds], perm \in SequenceOrders(n) :
            stop_times = [i \in 1..n |-> StopTimeRow(1, ss[i], perm[i], DefaultTime)]
    /\ stops = StopTable

InitDestinations ==
    /\ pc = "loaded"
    /\ InitHeadsigns \/ InitItinerary
    /\ routes = <<>>
    /\ calendar = {} /\ calendar_dates = {}
    /\ target_date = None /\ active = {}
    /\ trip_destinations = <<>>
    /\ stations = <<>>
    /\ query = None
    /\ schedule = <<>>
    /\ display = <<>>
    /\ result = None
    /\ gtfs_api = None /\ disk = <<>> /\ cache = None
    /\ session = <<>> /\ now = 0 /\ downloads = 0

ComputeTripDestinations ==
    /\ pc = "loaded"
    /\ trip_destinations' = compute_trip_destinations(stop_times, stops, trips)
    /\ pc' = "destinations"
    /\ UNCHANGED <<feedVars, calVars, stationVars, schedVars>>
    /\ UNCHANGED reloadVars

NextDestinations == ComputeTripDestinations

SpecDestinations == InitDestinations /\ [][NextDestinations]_vars

TripStopTimes(id) == {r \in Range(stop_times) : r.trip_id = id}

FirstRow(id) ==
    CHOOSE r \in TripStopTimes(id) :
        \A x \in TripStopTimes(id) : r.stop_sequence <= x.stop_sequence

LastRow(id) ==
    CHOOSE r \in TripStopTimes(id) :
        \A x \in TripStopTimes(id) : x.stop_sequence <= r.stop_sequence

InStopTable(id) == \E j \in DOMAIN stops : stops[j].stop_id = id

StopRecord(id) == stops[CHOOSE j \in DOMAIN stops : stops[j].stop_id = id]

\* The display name of a stop; missing for a stop the stop table lacks.
DisplayName(id) == IF InStopTable(id) THEN StopRecord(id).stop_name ELSE NaN

AllSpaces(text) == \A k \in DOMAIN text : text[k] = " "

NonEmptyText(text) == text # NaN /\ ~AllSpaces(text)

Declared(t) == NonEmptyText(t.trip_headsign)

HeadsignedSiblings(t) ==
    {i \in DOMAIN trips : trips[i].route_id = t.route_id /\ Declared(trips[i])}

DestinationRows(id) ==
    {i \in DOMAIN trip_destinations : trip_destinations[i].trip_id = id}

DestinationOf(id) ==
    trip_destinations[CHOOSE i \in DestinationRows(id) : TRUE].destination

\* The trips the geometric fallback resolves.
GeoResolved(t) ==
    /\ ~Declared(t)
    /\ HeadsignedSiblings(t) = {}
    /\ TripStopTimes(t.trip_id) # {}

\* C3 as stated: every trip with a stop-time row has exactly one destination
\* and it is a non-empty text, also when its stop-times reference stops the
\* stop table lacks.
C3_EveryTripResolved ==
    pc = "destinations" =>
        \A i \in DOMAIN trips :
            TripStopTimes(trips[i].trip_id) # {} =>
                /\ Cardinality(DestinationRows(trips[i].trip_id)) = 1
                /\ NonEmptyText(DestinationOf(trips[i].trip_id))

\* C3 amended: every trip with a stop-time row has exactly one destination;
\* it is a non-empty text when the trip has a non-blank headsign, or its
\* route has a headsigned trip, or its stop of highest stop_sequence is in
\* the stop table, and it is missing otherwise.
C3_ResolvedUnlessLastStopUnknown ==
    pc = "destinations" =>
        \A i \in DOMAIN trips :
            LET t == trips[i] IN
            TripStopTimes(t.trip_id) # {} =>
                /\ Cardinality(DestinationRows(t.trip_id)) = 1
                /\ IF GeoResolved(t) /\ ~InStopTable(LastRow(t.trip_id).stop_id)
                   THEN DestinationOf(t.trip_id) = NaN
                   ELSE NonEmptyText(DestinationOf(t.trip_id))

\* A whitespace-only headsign with no headsigned sibling resolves to a stop
\* name, next to a trip whose first stop is unknown and whose last is known.
C3_Witness ==
    /\ pc = "destinations"
    /\ \E i \in DOMAIN trips :
            /\ trips[i].trip_headsign = <<" ">>
            /\ GeoResolved(trips[i])
            /\ DestinationOf(trips[i].trip_id) \in {NameB, NameC}
    /\ \E i \in DOMAIN trips :
            /\ trips[i].trip_headsign = NaN
            /\ HeadsignedSiblings(trips[i]) # {}
            /\ NonEmptyText(DestinationOf(trips[i].trip_id))

\* A trip of the geometric fallback whose first stop is unknown to the stop
\* table and whose last stop is known.
C3_WitnessUnknownStop ==
    /\ pc = "destinations"
    /\ Len(trips) = 1
    /\ GeoResolved(trips[1])
    /\ ~InStopTable(FirstRow(1).stop_id)
    /\ InStopTable(LastRow(1).stop_id)
    /\ NonEmptyText(DestinationOf(1))

\* C4: a trip whose declared headsign is non-empty after trimming resolves
\* to its own headsign, whatever the other trips of its route declare.
C4_DeclaredHeadsignWins ==
    pc = "destinations" =>
        \A i \in DOMAIN trips :
            Declared(trips[i]) =>
                DestinationOf(trips[i].trip_id) = trips[i].trip_headsign

\* A trip declaring X on a route where two other trips declare Y.
C4_Witness ==
    /\ pc = "destinations"
    /\ \E i \in DOMAIN trips :
            /\ trips[i].trip_headsign = HeadX
            /\ Cardinality({j \in HeadsignedSiblings(trips[i]) :
                                trips[j].trip_headsign = HeadY}) >= 2
            /\ DestinationOf(trips[i].trip_id) = HeadX

HeadsignCount(t, h) ==
    Cardinality({j \in HeadsignedSiblings(t) : trips[j].trip_headsign = h})

FirstDeclaring(t, h) ==
    CHOOSE j \in HeadsignedSiblings(t) :
        /\ trips[j].trip_headsign = h
        /\ \A k \in HeadsignedSiblings(t) : trips[k].trip_headsign = h => j <= k

\* C5: a trip with a blank headsign on a route that has a headsigned trip
\* resolves to the headsign most frequent among the route's headsigned
\* trips; among headsigns of equal frequency it is the one the trip table
\* lists first, so the choice is a function of the trip table.
C5_SiblingHeadsignIsModal ==
    pc = "destinations" =>
        \A i \in DOMAIN trips :
            LET t == trips[i]
                d == DestinationOf(t.trip_id)
            IN (~Declared(t) /\ HeadsignedSiblings(t) # {}) =>
                /\ HeadsignCount(t, d) >= 1
                /\ \A j \in HeadsignedSiblings(t) :
                    LET h == trips[j].trip_headsign IN
                    /\ HeadsignCount(t, h) <= HeadsignCount(t, d)
                    /\ (HeadsignCount(t, h) = HeadsignCount(t, d) /\ h # d)
                        => FirstDeclaring(t, d) < FirstDeclaring(t, h)

\* A blank trip with stop-times on a route declaring X once, then Y twice.
C5_Witness ==
    /\ pc = "destinations"
    /\ \E i \in DOMAIN trips :
            /\ ~Declared(trips[i])
            /\ TripStopTimes(trips[i].trip_id) # {}
            /\ HeadsignCount(trips[i], HeadX) = 1
            /\ HeadsignCount(trips[i], HeadY) = 2
            /\ FirstDeclaring(trips[i], HeadX) < FirstDeclaring(trips[i], HeadY)
            /\ DestinationOf(trips[i].trip_id) = HeadY

\* A blank trip on a route declaring X and Y once each, Y first.
C5_WitnessTie ==
    /\ pc = "destinations"
    /\ \E i \in DOMAIN trips :
            /\ ~Declared(trips[i])
            /\ HeadsignCount(trips[i], HeadX) = 1
            /\ HeadsignCount(trips[i], HeadY) = 1
            /\ FirstDeclaring(trips[i], HeadY) < FirstDeclaring(trips[i], HeadX)
            /\ DestinationOf(trips[i].trip_id) = HeadY

SquaredDistance(a, b) ==
    (StopRecord(a).stop_lat - StopRecord(b).stop_lat)
        * (StopRecord(a).stop_lat - StopRecord(b).stop_lat)
    + (StopRecord(a).stop_lon - StopRecord(b).stop_lon)
        * (StopRecord(a).stop_lon - StopRecord(b).stop_lon)

\* A loop: the first and last stops carry the same display name and the
\* trip has more than two stop-times.
Loop(id) ==
    /\ Cardinality(TripStopTimes(id)) > 2
    /\ InStopTable(FirstRow(id).stop_id)
    /\ InStopTable(LastRow(id).stop_id)
    /\ DisplayName(FirstRow(id).stop_id) = DisplayName(LastRow(id).stop_id)

\* C6: a trip of the geometric fallback that is a loop resolves to the
\* display name of a stop of the trip whose squared planar distance from
\* the first stop is the largest.
C6_LoopResolvesToFarthest ==
    pc = "destinations" =>
        \A i \in DOMAIN trips :
            LET id == trips[i].trip_id
                located == {r \in TripStopTimes(id) : InStopTable(r.stop_id)}
            IN (GeoResolved(trips[i]) /\ Loop(id)) =>
                \E r \in located :
                    /\ DestinationOf(id) = DisplayName(r.stop_id)
                    /\ \A x \in located :
                        SquaredDistance(x.stop_id, FirstRow(id).stop_id)
                            <= SquaredDistance(r.stop_id, FirstRow(id).stop_id)

\* The loop A, B, C, A with A=(0,0), B=(1,0), C=(0,5) resolves to C.
C6_Witness ==
    /\ pc = "destinations"
    /\ Len(trips) = 1 /\ GeoResolved(trips[1])
    /\ {<<r.stop_sequence, r.stop_id>> : r \in TripStopTimes(1)}
            = {<<1, "S1">>, <<2, "S2">>, <<3, "S3">>, <<4, "S1">>}
    /\ DestinationOf(1) = NameC

\* C7: a trip of the geometric fallback that is no loop resolves to the
\* display name of its stop of highest stop_sequence, whatever the row
\* order of the stop-time table.
C7_LinearResolvesToLastStop ==
    pc = "destinations" =>
        \A i \in DOMAIN trips :
            LET id == trips[i].trip_id IN
            (GeoResolved(trips[i]) /\ ~Loop(id)) =>
                DestinationOf(id) = DisplayName(LastRow(id).stop_id)

\* A linear trip whose stop-time table lists the last stop first.
C7_Witness ==
    /\ pc = "destinations"
    /\ Len(trips) = 1 /\ GeoResolved(trips[1])
    /\ Len(stop_times) = 3
    /\ stop_times[1] = LastRow(1)
    /\ stop_times[3] = FirstRow(1)
    /\ DisplayName(FirstRow(1).stop_id) = NameA
    /\ DisplayName(LastRow(1).stop_id) = NameB
    /\ DestinationOf(1) = NameB

\* A trip of two stop-times that starts and ends at the same stop.
C7_WitnessShort ==
    /\ pc = "destinations"
    /\ Len(trips) = 1 /\ GeoResolved(trips[1])
    /\ Len(stop_times) = 2
    /\ FirstRow(1).stop_id = "S3" /\ LastRow(1).stop_id = "S3"
    /\ DestinationOf(1) = NameC

(***************************************************************************)
(* Text order                                                              *)
(***************************************************************************)
\* The characters of the feed's text in code-point order.
CharOrder ==
    <<" ", ",", "-", ".", "0", "1", "2", "3", "4", "5", "6", "7", "8", "9", ":",
      "A", "B", "C", "D", "E", "F", "G", "H", "I", "J", "K", "L", "M",
      "N", "O", "P", "Q", "R", "S", "T", "U", "V", "W", "X", "Y", "Z",
      "a", "b", "c", "d", "e", "f", "g", "h", "i", "j", "k", "l", "m",
      "n", "o", "p", "q", "r", "s", "t", "u", "v", "w", "x", "y", "z">>

CharCode ==
    [c \in Range(CharOrder) |-> CHOOSE i \in DOMAIN CharOrder : CharOrder[i] = c]

\* ord(c), up to an order-preserving renumbering
Ord(c) == CharCode[c]

\* a < b on two str values
TextLess(a, b) ==
    LET differ == {i \in DOMAIN a \cap DOMAIN b : a[i] # b[i]}
    IN IF differ = {}
       THEN Len(a) < Len(b)
       ELSE LET k == CHOOSE i \in differ : \A j \in differ : i <= j
            IN Ord(a[k]) < Ord(b[k])

\* str.lower()
LowerText(t) ==
    [i \in DOMAIN t |->
        IF Ord(t[i]) \in Ord("A")..Ord("Z")
        THEN CharOrder[Ord(t[i]) + (Ord("a") - Ord("A"))]
        ELSE t[i]]

TextLeq(a, b) == a = b \/ TextLess(a, b)

\* The texts of a set in ascending order.
RECURSIVE SortedTexts(_)
SortedTexts(S) ==
    IF S = {} THEN <<>>
    ELSE LET least == CHOOSE x \in S : \A y \in S : TextLeq(x, y)
         IN <<least>> \o SortedTexts(S \ {least})

(***************************************************************************)
(* Station consolidator                                                    *)
(***************************************************************************)
MaxStops == 3
MaxVisits == 3

OrtiseiSarteur ==
    <<"O", "r", "t", "i", "s", "e", "i", ",", " ", "S", "a", "r", "t", "e",
      "u", "r">>

OrtiseiPiazzaSAntonio ==
    <<"O", "r", "t", "i", "s", "e", "i", ",", " ", "P", "i", "a", "z", "z",
      "a", " ", "S", ".", " ", "A", "n", "t", "o", "n", "i", "o">>

SCristinaMunicipio ==
    <<"S", ".", " ", "C", "r", "i", "s", "t", "i", "n", "a", ",", " ", "M",
      "u", "n", "i", "c", "i", "p", "i", "o">>

SCristinaDosses ==
    <<"S", ".", " ", "C", "r", "i", "s", "t", "i", "n", "a", ",", " ", "D",
      "o", "s", "s", "e", "s">>

SelvaPiazzaNives ==
    <<"S", "e", "l", "v", "a", ",", " ", "P", "i", "a", "z", "z", "a", " ",
      "N", "i", "v", "e", "s">>

SelvaCiampinoi ==
    <<"S", "e", "l", "v", "a", ",", " ", "C", "i", "a", "m", "p", "i", "n",
      "o", "i">>

BolzanoAutostazioneA ==
    <<"B", "o", "l", "z", "a", "n", "o", ",", " ", "A", "u", "t", "o", "s",
      "t", "a", "z", "i", "o", "n", "e", " ", "A">>

PonteGardenaPaese ==
    <<"P", "o", "n", "t", "e", " ", "G", "a", "r", "d", "e", "n", "a", ",",
      " ", "P", "a", "e", "s", "e">>

BressanoneAutostazione ==
    <<"B", "r", "e", "s", "s", "a", "n", "o", "n", "e", ",", " ", "A", "u",
      "t", "o", "s", "t", "a", "z", "i", "o", "n", "e">>

\* A stop of Ortisei that is not a main stop.
OrtiseiRasciesa ==
    <<"O", "r", "t", "i", "s", "e", "i", ",", " ", "R", "a", "s", "c", "i",
      "e", "s", "a">>

\* A stop of Bolzano that is not a main stop.
BolzanoStazione ==
    <<"B", "o", "l", "z", "a", "n", "o", ",", " ", "S", "t", "a", "z", "i",
      "o", "n", "e">>

MAIN_STOP_NAMES ==
    {OrtiseiSarteur, OrtiseiPiazzaSAntonio, SCristinaMunicipio,
     SCristinaDosses, SelvaPiazzaNives, SelvaCiampinoi, BolzanoAutostazioneA,
     PonteGardenaPaese, BressanoneAutostazione}

\* A stop name that differs from a main stop name in letter case only.
ortisei_sarteur ==
    <<"o", "r", "t", "i", "s", "e", "i", ",", " ", "s", "a", "r", "t", "e",
      "u", "r">>

StationNames == {OrtiseiSarteur, ortisei_sarteur, BolzanoAutostazioneA}

\* extract_location on the names above (the keywords "ortisei", "bolzano").
LocationOfName(name) ==
    IF name \in {BolzanoAutostazioneA, BolzanoStazione} THEN "Bolzano"
    ELSE "St. Ulrich"

\* extract_region: REGION_MAP.get(location, "South Tyrol")
RegionOfLocation(location) ==
    CASE location \in {"St. Ulrich", "St. Christina", "Wolkenstein"} -> "Val Gardena"
      [] location = "Bolzano" -> "Bolzano"
      [] location \in {"Bressanone", "Klausen", "Ponte Gardena"} -> "Isarco Valley"
      [] OTHER -> "South Tyrol"

StopIdList == <<"S1", "S2", "S3", "S4", "S5", "S6">>

\* One row of transport_stops.csv; the k-th stop lies at (k, 2k).
StopRow(k, name) ==
    [stop_id |-> StopIdList[k], stop_name |-> name,
     stop_lat |-> k, stop_lon |-> 2 * k,
     location |-> LocationOfName(name),
     region |-> RegionOfLocation(LocationOfName(name))]

\* stop_times_df.groupby('stop_id').size()
DepCounts(stop_times_df) ==
    [id \in {r.stop_id : r \in Range(stop_times_df)} |->
        Cardinality({i \in DOMAIN stop_times_df : stop_times_df[i].stop_id = id})]

\* stops_df.merge(dep_counts, how='left') and fillna(0)
StopsWithDeps(stops_df, stop_times_df) ==
    LET dep_counts == DepCounts(stop_times_df)
    IN [i \in DOMAIN stops_df |->
           stops_df[i] @@
           [dep_count |-> IF stops_df[i].stop_id \in DOMAIN dep_counts
                          THEN dep_counts[stops_df[i].stop_id] ELSE 0]]

RECURSIVE SumOver(_, _)
SumOver(rows, field) ==
    IF rows = <<>> THEN 0 ELSE Head(rows)[field] + SumOver(Tail(rows), field)

\* Faulty variant: the stops grouped by name without regard to letter case.
GroupKeyCaseFolded(row) == LowerText(row.stop_name)

\* The key of groupby('stop_name')
GroupKey(row) == row.stop_name

\* Faulty variant: the departure count of the first member only.
DeparturesOfFirst(members) == members[1].dep_count

\* departures=('dep_count', 'sum')
Departures(members) == SumOver(members, "dep_count")

\* One row of the groupby('stop_name').agg(...) frame; a mean is kept as
\* <<sum, count>>.
StationRow(key, members) ==
    [stop_name |-> key,
     stop_lat |-> <<SumOver(members, "stop_lat"), Len(members)>>,
     stop_lon |-> <<SumOver(members, "stop_lon"), Len(members)>>,
     location |-> members[1].location,
     region |-> members[1].region,
     departures |-> Departures(members),
     stop_ids |-> [i \in DOMAIN members |-> members[i].stop_id],
     is_main |-> key \in MAIN_STOP_NAMES]

consolidate_stops(stops_df, stop_times_df) ==
    LET stops_with_deps == StopsWithDeps(stops_df, stop_times_df)
        keys == SortedTexts({GroupKey(r) : r \in Range(stops_with_deps)} \ {NaN})
    IN [g \in DOMAIN keys |->
           StationRow(keys[g],
                      SelectSeq(stops_with_deps, LAMBDA r : GroupKey(r) = keys[g]))]

\* Feeds for the consolidator: stops with distinct ids (load_data drops
\* duplicate stop ids) and stop-times that visit them or one stop more.
InitStations ==
    /\ pc = "loaded"
    /\ \E n \in 0..MaxStops :
        /\ \E names \in [1..n -> StationNames] :
            stops = [k \in 1..n |-> StopRow(k, names[k])]
        /\ \E v \in 0..MaxVisits :
            \E ids \in [1..v -> {StopIdList[k] : k \in 1..(n + 1)}] :
                stop_times = [i \in 1..v |-> StopTimeRow(i, ids[i], 1, DefaultTime)]
    /\ routes = <<>> /\ trips = <<>>
    /\ calendar = {} /\ calendar_dates = {}
    /\ target_date = None /\ active = {}
    /\ trip_destinations = <<>>
    /\ stations = <<>>
    /\ query = None
    /\ schedule = <<>>
    /\ display = <<>>
    /\ result = None
    /\ gtfs_api = None /\ disk = <<>> /\ cache = None
    /\ session = <<>> /\ now = 0 /\ downloads = 0

ConsolidateStops ==
    /\ pc = "loaded"
    /\ stations' = consolidate_stops(stops, stop_times)
    /\ pc' = "stations"
    /\ UNCHANGED <<feedVars, calVars, destVars, schedVars>>
    /\ UNCHANGED reloadVars

NextStations == ConsolidateStops

SpecStations == InitStations /\ [][NextStations]_vars

StationsHolding(id) ==
    {g \in DOMAIN stations : \E k \in DOMAIN stations[g].stop_ids :
                                stations[g].stop_ids[k] = id}

Occurrences(id) ==
    UNION {{<<g, k>> : k \in {x \in DOMAIN stations[g].stop_ids :
                                  stations[g].stop_ids[x] = id}} :
            g \in DOMAIN stations}

StationOf(id) == stations[CHOOSE g \in StationsHolding(id) : TRUE]

\* C8: consolidate_stops partitions the stops by exact display name: every
\* stop id is a member of exactly one station, every station has a member,
\* every member carries its station's name, and two stops share a station
\* iff their names are equal, letter case included.
C8_StationsPartitionByName ==
    pc = "stations" =>
        /\ \A i \in DOMAIN stops : Cardinality(Occurrences(stops[i].stop_id)) = 1
        /\ \A g \in DOMAIN stations :
            /\ Len(stations[g].stop_ids) >= 1
            /\ \A k \in DOMAIN stations[g].stop_ids :
                \E i \in DOMAIN stops :
                    /\ stops[i].stop_id = stations[g].stop_ids[k]
                    /\ stops[i].stop_name = stations[g].stop_name
        /\ \A i, j \in DOMAIN stops :
            (StationOf(stops[i].stop_id) = StationOf(stops[j].stop_id))
                <=> (stops[i].stop_name = stops[j].stop_name)

\* Two stops of one name, one whose name differs in case only, one other.
C8_Witness ==
    /\ pc = "stations"
    /\ Len(stations) = 2
    /\ \E i, j, k \in DOMAIN stops :
        /\ i # j
        /\ stops[i].stop_name = OrtiseiSarteur
        /\ stops[j].stop_name = OrtiseiSarteur
        /\ stops[k].stop_name = ortisei_sarteur
        /\ StationOf(stops[i].stop_id) = StationOf(stops[j].stop_id)
        /\ StationOf(stops[k].stop_id) # StationOf(stops[i].stop_id)

StopTimesAt(ids) ==
    {i \in DOMAIN stop_times : stop_times[i].stop_id \in Range(ids)}

\* C9: the departures of a station is the number of stop-time rows whose
\* stop_id is one of its members (a member without stop-times adds 0).
C9_DeparturesCountMemberStopTimes ==
    pc = "stations" =>
        \A g \in DOMAIN stations :
            stations[g].departures = Cardinality(StopTimesAt(stations[g].stop_ids))

\* Two stops named "Ortisei, Sarteur" form one station of two members whose
\* departures add up, beside a stop-time at a stop the table lacks.
C9_Witness ==
    /\ pc = "stations"
    /\ \E g \in DOMAIN stations :
        /\ stations[g].stop_name = OrtiseiSarteur
        /\ Len(stations[g].stop_ids) = 2
        /\ stations[g].departures = 3
        /\ \A k \in 1..2 :
            StopTimesAt(<<stations[g].stop_ids[k]>>) # {}

(***************************************************************************)
(* Station schedule (departure board of one station)                       *)
(***************************************************************************)
MaxBoardRows == 3

DedupWindow == 2

Route350 == <<"3", "5", "0">>
Route360 == <<"3", "6", "0">>

RouteTable ==
    << [route_id |-> "R1", route_short_name |-> Route350],
       [route_id |-> "R2", route_short_name |-> Route360] >>

\* Departure times of the board's feeds and the "Departures after" values.
BoardTimes == {TimeText(6, 59, 0), TimeText(7, 0, 30), TimeText(7, 1, 0)}

AfterTimes == {None, TimeText(7, 0, 0)}

\* Destinations the resolver gave the trips of the board's feeds.
BoardDestinations == {HeadX, HeadY}

\* The stops of the board's feeds: two platforms of one station and a stop
\* of another station.
BoardStops ==
    << StopRow(1, OrtiseiSarteur), StopRow(2, OrtiseiSarteur),
       StopRow(3, BolzanoAutostazioneA) >>

DigitValue(c) == (CHOOSE i \in DOMAIN Digits : Digits[i] = c) - 1

\* int(text) on a text of decimal digits
RECURSIVE ParseInt(_)
ParseInt(t) ==
    IF t = <<>> THEN 0
    ELSE 10 * ParseInt(SubSeq(t, 1, Len(t) - 1)) + DigitValue(t[Len(t)])

\* text.split(sep)
RECURSIVE SplitText(_, _)
SplitText(t, sep) ==
    LET at == {i \in DOMAIN t : t[i] = sep}
    IN IF at = {} THEN <<t>>
       ELSE LET k == CHOOSE i \in at : \A j \in at : i <= j
            IN <<SubSeq(t, 1, k - 1)>> \o SplitText(SubSeq(t, k + 1, Len(t)), sep)

_time_to_minutes(t) ==
    LET parts == SplitText(t, ":")
    IN ParseInt(parts[1]) * 60 + ParseInt(parts[2])

\* sort_values with a stable order: rows that compare equal keep their
\* order. less[i, j] tells whether row i sorts before row j.
StableSort(rows, less) ==
    LET n == Len(rows)
        rank == [i \in 1..n |->
                    Cardinality({j \in 1..n :
                        less[j, i] \/ (~less[i, j] /\ j < i)})]
    IN [p \in 1..n |-> rows[CHOOSE i \in 1..n : rank[i] = p - 1]]

\* An inner merge on a key the right table holds at most once: the left
\* rows that find a partner, in left order, with the partner's columns.
MergeInner(left, right, key) ==
    LET found == SelectSeq(left, LAMBDA l :
                    \E j \in DOMAIN right : right[j][key] = l[key])
    IN [i \in DOMAIN found |->
           found[i] @@
           right[CHOOSE j \in DOMAIN right : right[j][key] = found[i][key]]]

\* merge(trip_destinations[['trip_id', 'destination']], how='left')
MergeDestinations(left, dests) ==
    [i \in DOMAIN left |->
        LET hit == {j \in DOMAIN dests : dests[j].trip_id = left[i].trip_id}
        IN left[i] @@
           [destination |-> IF hit = {} THEN NaN
                            ELSE dests[CHOOSE j \in hit : TRUE].destination]]

RoutePrefix == <<"R", "o", "u", "t", "e", " ">>

\* destination.fillna('Route ' + route_short_name)
FillDestination(rows) ==
    [i \in DOMAIN rows |->
        IF rows[i].destination = NaN
        THEN [rows[i] EXCEPT !.destination = RoutePrefix \o rows[i].route_short_name]
        ELSE rows[i]]

\* route_main_dest: the most common destination of each route on the board
RouteMainDest(rows) ==
    [r \in {x.route_short_name : x \in Range(rows)} |->
        LET mine == SelectSeq(rows, LAMBDA x : x.route_short_name = r)
        IN ModalValue([i \in DOMAIN mine |-> mine[i].destination])]

\* The columns _is_main and _minutes
WithDedupColumns(rows) ==
    LET route_main_dest == RouteMainDest(rows)
    IN [i \in DOMAIN rows |->
           rows[i] @@
           [is_main |-> rows[i].destination = route_main_dest[rows[i].route_short_name],
            minutes |-> _time_to_minutes(rows[i].departure_time)]]

\* Faulty variant: at equal minutes the rows of another destination than
\* the route's main one come first.
DedupOrderOfMainLast(a, b) ==
    \/ TextLess(a.route_short_name, b.route_short_name)
    \/ /\ a.route_short_name = b.route_short_name
       /\ \/ a.minutes < b.minutes
          \/ (a.minutes = b.minutes /\ ~a.is_main /\ b.is_main)

\* Order of sort_values(['route_short_name', '_minutes', '_is_main'],
\* ascending=[True, True, False])
DedupOrderOf(a, b) ==
    \/ TextLess(a.route_short_name, b.route_short_name)
    \/ /\ a.route_short_name = b.route_short_name
       /\ \/ a.minutes < b.minutes
          \/ (a.minutes = b.minutes /\ a.is_main /\ ~b.is_main)

\* Faulty variant: rows exactly DedupWindow minutes apart collapse as well.
KeepRowInclusiveWindow(route, mins, prev_route, prev_min) ==
    route # prev_route \/ (mins - prev_min) > DedupWindow

\* route != prev_route or (mins - prev_min) >= 2
KeepRow(route, mins, prev_route, prev_min) ==
    route # prev_route \/ (mins - prev_min) >= DedupWindow

\* Faulty variant: the gap is measured from the last row seen, kept or not.
RECURSIVE ProximityDedupLastSeen(_, _, _)
ProximityDedupLastSeen(rows, prev_route, prev_min) ==
    IF rows = <<>> THEN <<>>
    ELSE LET row == Head(rows)
         IN (IF KeepRow(row.route_short_name, row.minutes, prev_route, prev_min)
             THEN <<row>> ELSE <<>>)
                \o ProximityDedupLastSeen(Tail(rows), row.route_short_name, row.minutes)

\* Faulty variant: of the rows that collapse, the last one is kept instead
\* of the first.
RECURSIVE ProximityDedupKeepLast(_, _, _)
ProximityDedupKeepLast(rows, prev_route, prev_min) ==
    IF rows = <<>> THEN <<>>
    ELSE LET row == Head(rows)
             rest == Tail(rows)
             starts == KeepRow(row.route_short_name, row.minutes, prev_route, prev_min)
             anchor_route == IF starts THEN row.route_short_name ELSE prev_route
             anchor_min == IF starts THEN row.minutes ELSE prev_min
             last == \/ rest = <<>>
                     \/ KeepRow(Head(rest).route_short_name, Head(rest).minutes,
                                anchor_route, anchor_min)
         IN (IF last THEN <<row>> ELSE <<>>)
                \o ProximityDedupKeepLast(rest, anchor_route, anchor_min)

\* The loop over schedule.index that fills keep.
RECURSIVE ProximityDedup(_, _, _)
ProximityDedup(rows, prev_route, prev_min) ==
    IF rows = <<>> THEN <<>>
    ELSE LET row == Head(rows)
         IN IF KeepRow(row.route_short_name, row.minutes, prev_route, prev_min)
            THEN <<row>> \o ProximityDedup(Tail(rows), row.route_short_name, row.minutes)
            ELSE ProximityDedup(Tail(rows), prev_route, prev_min)

DedupOrder(rows) ==
    [i \in DOMAIN rows, j \in DOMAIN rows |-> DedupOrderOf(rows[i], rows[j])]

\* Faulty variant: the latest departure first.
DepartureOrderDescending(rows) ==
    [i \in DOMAIN rows, j \in DOMAIN rows |->
        TextLess(rows[j].departure_time, rows[i].departure_time)]

\* Order of sort_values('departure_time')
DepartureOrder(rows) ==
    [i \in DOMAIN rows, j \in DOMAIN rows |->
        TextLess(rows[i].departure_time, rows[j].departure_time)]

BoardColumns(rows) ==
    [i \in DOMAIN rows |->
        [departure_time |-> rows[i].departure_time,
         route_short_name |-> rows[i].route_short_name,
         destination |-> rows[i].destination,
         trip_id |-> rows[i].trip_id]]

\* The dedup pass of get_station_schedule on the joined rows.
DedupPass(joined) ==
    LET with_columns == WithDedupColumns(joined)
        sorted == StableSort(with_columns, DedupOrder(with_columns))
        kept == ProximityDedup(sorted, None, 0 - 999)
    IN BoardColumns(StableSort(kept, DepartureOrder(kept)))

get_station_schedule(station_row, stop_times_df, trips_df, routes_df, dests, after_time) ==
    LET at_station == SelectSeq(stop_times_df, LAMBDA r :
                        \E k \in DOMAIN station_row.stop_ids :
                            station_row.stop_ids[k] = r.stop_id)
        after == IF after_time # None /\ after_time # <<>>
                 THEN SelectSeq(at_station, LAMBDA r :
                        TextLeq(after_time, r.departure_time))
                 ELSE at_station
        with_trips == MergeInner(after,
                        [i \in DOMAIN trips_df |->
                            [trip_id |-> trips_df[i].trip_id,
                             route_id |-> trips_df[i].route_id]],
                        "trip_id")
        with_routes == MergeInner(with_trips, routes_df, "route_id")
        joined == FillDestination(MergeDestinations(with_routes, dests))
    IN DedupPass(joined)

\* Feeds for the board: every stop-time row is a visit of its own trip to
\* one of the two platforms of "Ortisei, Sarteur"; the destination table
\* may lack the last trip.
InitBoard ==
    /\ pc = "loaded"
    /\ stops = BoardStops
    /\ routes = RouteTable
    /\ \E n \in 0..MaxBoardRows :
        \E rs \in [1..n -> {"R1", "R2"}], ts \in [1..n -> BoardTimes],
           ds \in [1..n -> BoardDestinations], m \in {n - 1, n} \cap Nat :
            /\ trips = [i \in 1..n |-> TripRow(i, rs[i], "SVC1", NaN)]
            /\ stop_times = [i \in 1..n |->
                    StopTimeRow(i, StopIdList[2 - (i % 2)], 1, ts[i])]
            /\ trip_destinations = [i \in 1..m |->
                    [trip_id |-> i, destination |-> ds[i]]]
    /\ stations = consolidate_stops(stops, stop_times)
    /\ calendar = {} /\ calendar_dates = {}
    /\ target_date = None /\ active = {}
    /\ query = None
    /\ schedule = <<>>
    /\ display = <<>>
    /\ result = None
    /\ gtfs_api = None /\ disk = <<>> /\ cache = None
    /\ session = <<>> /\ now = 0 /\ downloads = 0

GetStationSchedule ==
    \E g \in DOMAIN stations, after_time \in AfterTimes :
        /\ pc = "loaded"
        /\ query' = [station_row |-> stations[g], after_time |-> after_time]
        /\ schedule' = get_station_schedule(stations[g], stop_times, trips,
                                            routes, trip_destinations, after_time)
        /\ pc' = "schedule"
        /\ UNCHANGED <<feedVars, calVars, destVars, stationVars, display, result>>
        /\ UNCHANGED reloadVars

NextBoard == GetStationSchedule

SpecBoard == InitBoard /\ [][NextBoard]_vars

\* Minutes since midnight of a fixed-width HH:MM:SS text.
ClockMinutes(t) ==
    (10 * DigitValue(t[1]) + DigitValue(t[2])) * 60
        + 10 * DigitValue(t[4]) + DigitValue(t[5])

\* The stop-time rows the board of the queried station starts from.
Candidates ==
    {i \in DOMAIN stop_times :
        /\ stop_times[i].stop_id \in Range(query.station_row.stop_ids)
        /\ \/ query.after_time = None
           \/ TextLeq(query.after_time, stop_times[i].departure_time)}

TripOf(i) == trips[CHOOSE k \in DOMAIN trips : trips[k].trip_id = stop_times[i].trip_id]

RouteNameOf(i) ==
    routes[CHOOSE k \in DOMAIN routes :
                routes[k].route_id = TripOf(i).route_id].route_short_name

MinutesOf(i) == ClockMinutes(stop_times[i].departure_time)

Gap(i, j) ==
    IF MinutesOf(i) <= MinutesOf(j)
    THEN MinutesOf(j) - MinutesOf(i)
    ELSE MinutesOf(i) - MinutesOf(j)

Shown(i) == \E k \in DOMAIN schedule : schedule[k].trip_id = stop_times[i].trip_id

\* The only two candidate rows of their route.
LonePair(i, j) ==
    /\ i \in Candidates /\ j \in Candidates /\ i < j
    /\ RouteNameOf(i) = RouteNameOf(j)
    /\ \A k \in Candidates \ {i, j} : RouteNameOf(k) # RouteNameOf(i)

\* C10: of two rows of one route at the station, both are kept when their
\* departure minutes differ by exactly 2, and exactly one is kept when they
\* differ by 1 or 0.
C10_DedupWindowBoundary ==
    pc = "schedule" =>
        \A i, j \in DOMAIN stop_times :
            LonePair(i, j) =>
                /\ Gap(i, j) = 2 => (Shown(i) /\ Shown(j))
                /\ Gap(i, j) <= 1 => (Shown(i) /\ ~Shown(j)) \/ (~Shown(i) /\ Shown(j))

\* Two rows of one route 2 minutes apart, a row of the other route between
\* them, and all three on the board.
C10_Witness ==
    /\ pc = "schedule"
    /\ Len(schedule) = 3
    /\ \E i, j \in DOMAIN stop_times : LonePair(i, j) /\ Gap(i, j) = 2

\* Two rows of one route 1 minute apart, of which the board keeps one.
C10_WitnessCollapse ==
    /\ pc = "schedule"
    /\ \E i, j \in DOMAIN stop_times :
        /\ LonePair(i, j) /\ Gap(i, j) = 1
        /\ Cardinality({k \in DOMAIN schedule :
                schedule[k].route_short_name = RouteNameOf(i)}) = 1

\* C11: the dedup pass applied to the board it returned gives that board
\* back: the same rows in the same order.
C11_DedupIdempotent ==
    pc = "schedule" => DedupPass(schedule) = schedule

\* A board of two or more rows that is shorter than the rows it came from.
C11_Witness ==
    /\ pc = "schedule"
    /\ Len(schedule) >= 2
    /\ Len(schedule) < Cardinality(Candidates)
    /\ DedupPass(schedule) = schedule

\* The destination the board shows for a stop-time row: the resolved one, or
\* 'Route <short name>' when the resolver gave none.
BoardDestinationOf(i) ==
    LET hit == {k \in DOMAIN trip_destinations :
                    trip_destinations[k].trip_id = stop_times[i].trip_id}
    IN IF \E k \in hit : trip_destinations[k].destination # NaN
       THEN trip_destinations[CHOOSE k \in hit : TRUE].destination
       ELSE RoutePrefix \o RouteNameOf(i)

\* The candidate rows of the route of row i.
RouteMates(i) == {k \in Candidates : RouteNameOf(k) = RouteNameOf(i)}

Frequency(i) ==
    Cardinality({k \in RouteMates(i) : BoardDestinationOf(k) = BoardDestinationOf(i)})

\* Row i has the one most common destination of its route.
HasModalDestination(i) ==
    \A k \in RouteMates(i) :
        BoardDestinationOf(k) # BoardDestinationOf(i) => Frequency(k) < Frequency(i)

\* No destination of the route is more common than that of row i.
AmongMostCommon(i) == \A k \in RouteMates(i) : Frequency(k) <= Frequency(i)

\* Row j was dropped and lies in the window of the kept row i of its route.
CollapsedInto(j, i) ==
    /\ i \in Candidates /\ j \in Candidates /\ i # j
    /\ RouteNameOf(i) = RouteNameOf(j)
    /\ Shown(i) /\ ~Shown(j)
    /\ MinutesOf(i) <= MinutesOf(j)
    /\ MinutesOf(j) - MinutesOf(i) < DedupWindow

\* C12 as stated: when a dropped row has the modal destination of its route,
\* the row kept in its place has it too, also when the kept row is earlier.
C12_ModalRowSurvives ==
    pc = "schedule" =>
        \A i, j \in DOMAIN stop_times :
            (CollapsedInto(j, i) /\ HasModalDestination(j)) => HasModalDestination(i)

\* C12 amended: every dropped row has a kept row of its route at the same or
\* the previous minute; the modal destination decides only between rows of
\* the same minute, and rows it does not tell apart keep the first in row
\* order.
C12_ModalBreaksTiesOnly ==
    pc = "schedule" =>
        \A j \in Candidates :
            ~Shown(j) =>
                /\ \E i \in Candidates : CollapsedInto(j, i)
                /\ \A i \in Candidates :
                    (CollapsedInto(j, i) /\ MinutesOf(i) = MinutesOf(j)) =>
                        /\ HasModalDestination(j) => HasModalDestination(i)
                        /\ (\/ BoardDestinationOf(i) = BoardDestinationOf(j)
                            \/ (~AmongMostCommon(i) /\ ~AmongMostCommon(j)))
                                => i < j

\* A row with the modal destination is kept in place of an earlier-listed
\* row of the same minute with another destination.
C12_Witness ==
    /\ pc = "schedule"
    /\ \E i, j \in DOMAIN stop_times :
        /\ CollapsedInto(j, i) /\ MinutesOf(i) = MinutesOf(j)
        /\ j < i
        /\ HasModalDestination(i) /\ ~HasModalDestination(j)

\* A row with the modal destination is dropped for a row one minute
\* earlier that has another destination.
C12_WitnessLaterModal ==
    /\ pc = "schedule"
    /\ \E i, j \in DOMAIN stop_times :
        /\ CollapsedInto(j, i) /\ MinutesOf(i) < MinutesOf(j)
        /\ HasModalDestination(j) /\ ~HasModalDestination(i)

(***************************************************************************)
(* Dashboard schedule tab (main): the departures of a station and the      *)
(* direct connections between two stations on a date                       *)
(***************************************************************************)
MaxDashTrips == 3

\* External locations (outside Val Gardena)
EXTERNAL_LOCATIONS == {"Bolzano", "Ponte Gardena", "Bressanone"}

StUlrichText == <<"S", "t", ".", " ", "U", "l", "r", "i", "c", "h">>

BolzanoText == <<"B", "o", "l", "z", "a", "n", "o">>

\* The text of a location value, for origin_loc + ' '.
LocationText(location) ==
    IF location = "Bolzano" THEN BolzanoText ELSE StUlrichText

\* A headsign variant of a Bolzano terminus.
BolzanoAutostazione ==
    <<"B", "o", "l", "z", "a", "n", "o", " ", "A", "u", "t", "o", "s", "t",
      "a", "z", "i", "o", "n", "e">>

\* all_stops of load_data: two platforms of "Ortisei, Sarteur", a second
\* station of Ortisei and two stations of Bolzano.
DashStops ==
    << StopRow(1, OrtiseiSarteur), StopRow(2, OrtiseiSarteur),
       StopRow(3, OrtiseiRasciesa), StopRow(4, BolzanoAutostazioneA),
       StopRow(5, BolzanoStazione) >>

\* The stops a trip visits, in stop_sequence order: a loop from Ortisei to
\* Bolzano and back, a run from Bolzano to Ortisei, and a local run within
\* Ortisei.
LoopRun == <<"S2", "S4", "S1">>
InboundRun == <<"S5", "S4", "S1">>
LocalRun == <<"S1", "S3">>

Itineraries == {LoopRun, InboundRun, LocalRun}

\* Only the trips of the loop declare a headsign.
ItineraryHeadsign(it) == IF it = LoopRun THEN BolzanoAutostazione ELSE NaN

\* Start of a trip as <<minute of the day, second>>: 06:50:45, 07:00:00 and
\* 07:00:30.
DashStarts == {<<410, 45>>, <<420, 0>>, <<420, 30>>}

ClockText(minute, sec) == TimeText(minute \div 60, minute % 60, sec)

\* The k-th visit of a trip: it departs 10 minutes after the previous visit
\* and a minute after it arrives.
DashVisit(trip, stop, k, start) ==
    StopTimeRow(trip, stop, k, ClockText(start[1] + 10 * (k - 1), start[2])) @@
    [arrival_time |-> ClockText(start[1] + 10 * (k - 1) - 1, start[2])]

RECURSIVE DashStopTimes(_, _, _)
DashStopTimes(its, starts, i) ==
    IF i > Len(its) THEN <<>>
    ELSE [k \in 1..Len(its[i]) |-> DashVisit(i, its[i][k], k, starts[i])]
            \o DashStopTimes(its, starts, i + 1)

\* The trips alternate between the two routes; the first two run on SVC1,
\* the following ones on SVC2.
DashTrips(its) ==
    [i \in DOMAIN its |->
        TripRow(i, IF i % 2 = 1 THEN "R1" ELSE "R2",
                IF i <= 2 THEN "SVC1" ELSE "SVC2", ItineraryHeadsign(its[i]))]

\* The date picked in the dashboard: Saturday 1 June 2024.
DashDates == {<<2024, 6, 1>>}

\* transport_calendar.csv: SVC1 runs on weekends, SVC2 on weekdays.
DashCalendar ==
    {CalendarRow("SVC1", WeekendOnly, <<20240531, 20240601>>),
     CalendarRow("SVC2", WeekdaysOnly, <<20240531, 20240601>>)}

\* Exceptions of that date: SVC1 removed, SVC2 added.
DashExceptions ==
    {[service_id |-> "SVC1", date |-> 20240601, exception_type |-> 2],
     [service_id |-> "SVC2", date |-> 20240601, exception_type |-> 1]}

\* time_filter.strftime("%H:%M:00")
DashAfterTimes == {TimeText(7, 0, 0)}

\* Faulty variant: the stop-times of every trip, whatever its service.
ActiveStopTimesAllTrips(trips_df, stop_times_df, active_services) == stop_times_df

\* active_trip_ids and active_stop_times
ActiveStopTimes(trips_df, stop_times_df, active_services) ==
    LET active_trip_ids ==
            {t.trip_id : t \in {x \in Range(trips_df) :
                                    x.service_id \in active_services}}
    IN SelectSeq(stop_times_df, LAMBDA r : r.trip_id \in active_trip_ids)

\* stations[stations['stop_name'] == station_name].iloc[0]
StationNamed(sts, station_name) ==
    sts[CHOOSE g \in DOMAIN sts :
            /\ sts[g].stop_name = station_name
            /\ \A h \in 1..(g - 1) : sts[h].stop_name # station_name]

\* sum(stations[stations['location'] == loc]['stop_ids'].tolist(), [])
RECURSIVE VillageStopIds(_, _)
VillageStopIds(sts, loc) ==
    IF sts = <<>> THEN <<>>
    ELSE (IF Head(sts).location = loc THEN Head(sts).stop_ids ELSE <<>>)
            \o VillageStopIds(Tail(sts), loc)

\* The stop ids the schedule of a station is built from: for a station of
\* an external location, the stops of all stations of that location.
OriginStopIds(sts, station_row) ==
    IF station_row.location \in EXTERNAL_LOCATIONS
    THEN VillageStopIds(sts, station_row.location)
    ELSE station_row.stop_ids

\* The options of the "Station" and "To" select boxes with "Show all stops"
\* unticked: the main stations.
StationOptions(sts) == {sts[g].stop_name : g \in {h \in DOMAIN sts : sts[h].is_main}}

DestinationOptions(sts, origin_village) ==
    {sts[g].stop_name :
        g \in {h \in DOMAIN sts : sts[h].is_main /\ sts[h].location # origin_village}}

\* str.startswith(prefix, na=False)
StartsWith(text, prefix) ==
    /\ text # NaN
    /\ Len(text) >= Len(prefix)
    /\ SubSeq(text, 1, Len(prefix)) = prefix

\* Faulty variant: only the name of the origin station itself.
OriginStopNamesOwnOnly(sts, station_row) == {station_row.stop_name}

\* origin_stop_names
OriginStopNames(sts, station_row) ==
    {sts[g].stop_name : g \in {h \in DOMAIN sts : sts[h].location = station_row.location}}

\* The filter on buses whose destination is in the village of the origin.
SameVillageFilter(sched, sts, station_row) ==
    LET origin_loc == station_row.location
        origin_stop_names == OriginStopNames(sts, station_row)
        elsewhere == SelectSeq(sched, LAMBDA r : r.destination \notin origin_stop_names)
    IN SelectSeq(elsewhere, LAMBDA r :
            \/ ~StartsWith(r.destination, LocationText(origin_loc) \o <<" ">>)
            \/ origin_loc = "")

\* origin_st.merge(dest_st, on='trip_id', suffixes=('_orig', '_dest'))
RECURSIVE MergeOnTrip(_, _)
MergeOnTrip(origin_st, dest_st) ==
    IF origin_st = <<>> THEN <<>>
    ELSE LET o == Head(origin_st)
             partners == SelectSeq(dest_st, LAMBDA d : d.trip_id = o.trip_id)
         IN [k \in DOMAIN partners |->
                [trip_id |-> o.trip_id, stop_id |-> o.stop_id,
                 stop_sequence_orig |-> o.stop_sequence,
                 departure_time |-> o.departure_time,
                 stop_sequence_dest |-> partners[k].stop_sequence,
                 arrival_time |-> partners[k].arrival_time]]
            \o MergeOnTrip(Tail(origin_st), dest_st)

\* Faulty variant: a destination visit at any other position qualifies.
IsValidPairEitherWay(row) == row.stop_sequence_dest # row.stop_sequence_orig

\* merged['stop_sequence_dest'] > merged['stop_sequence_orig']
IsValidPair(row) == row.stop_sequence_dest > row.stop_sequence_orig

\* Order of sort_values(['trip_id', 'stop_sequence_orig', 'stop_sequence_dest'])
FirstVisitOrder(rows) ==
    [i \in DOMAIN rows, j \in DOMAIN rows |->
        \/ rows[i].trip_id < rows[j].trip_id
        \/ /\ rows[i].trip_id = rows[j].trip_id
           /\ \/ rows[i].stop_sequence_orig < rows[j].stop_sequence_orig
              \/ /\ rows[i].stop_sequence_orig = rows[j].stop_sequence_orig
                 /\ rows[i].stop_sequence_dest < rows[j].stop_sequence_dest]

\* drop_duplicates('trip_id', keep='first')
RECURSIVE DropDuplicateTrips(_, _)
DropDuplicateTrips(rows, seen) ==
    IF rows = <<>> THEN <<>>
    ELSE IF Head(rows).trip_id \in seen THEN DropDuplicateTrips(Tail(rows), seen)
    ELSE <<Head(rows)>> \o DropDuplicateTrips(Tail(rows), seen \cup {Head(rows).trip_id})

\* The dedup loop of the connection list: the rows are in departure-time
\* order and each is compared with the row kept last.
RECURSIVE ConnectionDedup(_, _, _)
ConnectionDedup(rows, prev_route, prev_min) ==
    IF rows = <<>> THEN <<>>
    ELSE LET row == Head(rows)
             route == row.route_short_name
             parts == SplitText(row.departure_time, ":")
             mins == ParseInt(parts[1]) * 60 + ParseInt(parts[2])
         IN IF route # prev_route \/ (mins - prev_min) >= DedupWindow
            THEN <<row>> \o ConnectionDedup(Tail(rows), route, mins)
            ELSE ConnectionDedup(Tail(rows), prev_route, prev_min)

\* The destination-filtered schedule (origin stop -> destination stop).
DirectConnections(sts, active_stop_times, trips_df, routes_df, dests, station_name, dest_stop_name, time_str) ==
    LET origin_stop_ids == OriginStopIds(sts, StationNamed(sts, station_name))
        dest_stop_ids == StationNamed(sts, dest_stop_name).stop_ids
        origin_st == SelectSeq(active_stop_times, LAMBDA r :
                        r.stop_id \in Range(origin_stop_ids))
        dest_st == SelectSeq(active_stop_times, LAMBDA r :
                        r.stop_id \in Range(dest_stop_ids))
        merged == MergeOnTrip(origin_st, dest_st)
        valid == SelectSeq(merged, IsValidPair)
        sorted == StableSort(valid, FirstVisitOrder(valid))
        first_visits == DropDuplicateTrips(sorted, {})
        per_trip == SelectSeq(first_visits, LAMBDA r :
                        TextLeq(time_str, r.departure_time))
        with_trips == MergeInner(per_trip,
                        [i \in DOMAIN trips_df |->
                            [trip_id |-> trips_df[i].trip_id,
                             route_id |-> trips_df[i].route_id]],
                        "trip_id")
        with_routes == MergeInner(with_trips, routes_df, "route_id")
        with_dests == MergeDestinations(with_routes, dests)
        by_time == StableSort(with_dests, DepartureOrder(with_dests))
    IN IF valid = <<>> THEN <<>>
       ELSE ConnectionDedup(by_time, None, 0 - 999)

\* The state after load_data: the feed tables, the destinations of the
\* trips and the stations.
InitDashboard ==
    /\ pc = "loaded"
    /\ stops = DashStops
    /\ routes = RouteTable
    /\ \E n \in 0..MaxDashTrips :
        \E its \in [1..n -> Itineraries], starts \in [1..n -> DashStarts] :
            /\ trips = DashTrips(its)
            /\ stop_times = DashStopTimes(its, starts, 1)
    /\ calendar = DashCalendar
    /\ calendar_dates \in SUBSET DashExceptions
    /\ trip_destinations = compute_trip_destinations(stop_times, stops, trips)
    /\ stations = consolidate_stops(stops, stop_times)
    /\ target_date = None /\ active = {}
    /\ query = None
    /\ schedule = <<>>
    /\ display = <<>>
    /\ result = None
    /\ gtfs_api = None /\ disk = <<>> /\ cache = None
    /\ session = <<>> /\ now = 0 /\ downloads = 0

\* The schedule tab with "All destinations": the departures of a station.
ShowDepartures ==
    \E station_name \in StationOptions(stations), date \in DashDates,
       time_str \in DashAfterTimes :
        LET active_services == get_active_service_ids(calendar, calendar_dates, date)
            active_stop_times == ActiveStopTimes(trips, stop_times, active_services)
            picked == StationNamed(stations, station_name)
            station_row == [picked EXCEPT !.stop_ids = OriginStopIds(stations, picked)]
            sched == get_station_schedule(station_row, active_stop_times, trips,
                                          routes, trip_destinations, time_str)
        IN /\ pc = "loaded"
           /\ target_date' = date
           /\ active' = active_services
           /\ query' = [station_name |-> station_name, dest_stop_name |-> None,
                        time_str |-> time_str]
           /\ schedule' = sched
           /\ display' = SameVillageFilter(sched, stations, station_row)
           /\ pc' = "departures"
           /\ UNCHANGED <<feedVars, calendar, calendar_dates, destVars, stationVars,
                          result>>
           /\ UNCHANGED reloadVars

\* The schedule tab with a destination stop picked: the direct connections.
ShowConnections ==
    \E station_name \in StationOptions(stations), date \in DashDates,
       time_str \in DashAfterTimes :
        \E dest_stop_name \in DestinationOptions(stations,
                                StationNamed(stations, station_name).location) :
            LET active_services == get_active_service_ids(calendar, calendar_dates, date)
                active_stop_times == ActiveStopTimes(trips, stop_times, active_services)
            IN /\ pc = "loaded"
               /\ target_date' = date
               /\ active' = active_services
               /\ query' = [station_name |-> station_name,
                            dest_stop_name |-> dest_stop_name,
                            time_str |-> time_str]
               /\ display' = DirectConnections(stations, active_stop_times, trips,
                                               routes, trip_destinations,
                                               station_name, dest_stop_name, time_str)
               /\ pc' = "connections"
               /\ UNCHANGED <<feedVars, calendar, calendar_dates, destVars,
                              stationVars, schedule, result>>
               /\ UNCHANGED reloadVars

NextDashboard == ShowDepartures \/ ShowConnections

SpecDashboard == InitDashboard /\ [][NextDashboard]_vars

\* The station picked as origin.
QueriedStation ==
    stations[CHOOSE g \in DOMAIN stations : stations[g].stop_name = query.station_name]

\* The stops that are members of the origin station.
OwnStopIds == Range(QueriedStation.stop_ids)

\* The stops of the stop table that lie in a location.
StopsOfLocation(loc) ==
    {stops[k].stop_id : k \in {h \in DOMAIN stops : stops[h].location = loc}}

\* The members of the origin station or, for a station of an external
\* location, the stops of all stations of that location.
OriginOrVillageStopIds ==
    IF QueriedStation.location \in EXTERNAL_LOCATIONS
    THEN StopsOfLocation(QueriedStation.location)
    ELSE OwnStopIds

ServiceOf(i) == TripOf(i).service_id

RunsOnDate(i) ==
    ServiceOf(i) \in get_active_service_ids(calendar, calendar_dates, target_date)

\* The stop-time rows a listed departure can come from: at one of the stops
\* ids, of an active trip, not before the time asked for.
SourceRows(row, ids) ==
    {i \in DOMAIN stop_times :
        /\ stop_times[i].trip_id = row.trip_id
        /\ stop_times[i].departure_time = row.departure_time
        /\ stop_times[i].stop_id \in ids
        /\ RunsOnDate(i)
        /\ TextLeq(query.time_str, stop_times[i].departure_time)}

RemovedOnDate(service) ==
    \E e \in calendar_dates :
        /\ e.service_id = service
        /\ e.date = DateInt(target_date)
        /\ e.exception_type = 2

\* Every trip that calls at one of the stops ids runs on a service that an
\* exception of the date removes.
OnlyServiceRemoved(ids) ==
    \A i \in DOMAIN stop_times :
        stop_times[i].stop_id \in ids => RemovedOnDate(ServiceOf(i))

\* C13 as stated: every departure listed for a station comes from a
\* stop-time row at a member stop of that station, of a trip whose service
\* is active on the date, at or after the time asked for; and nothing is
\* listed when the only service at the station is removed on that date.
C13_DeparturesFromMemberStops ==
    pc = "departures" =>
        /\ \A k \in DOMAIN display : SourceRows(display[k], OwnStopIds) # {}
        /\ OnlyServiceRemoved(OwnStopIds) => display = <<>>

\* C13 amended: the same with, for a station of an external location, the
\* stops of all stations of that location in place of the station's members.
C13_DeparturesFromBoardStops ==
    pc = "departures" =>
        /\ \A k \in DOMAIN schedule :
                SourceRows(schedule[k], OriginOrVillageStopIds) # {}
        /\ \A k \in DOMAIN display :
                SourceRows(display[k], OriginOrVillageStopIds) # {}
        /\ OnlyServiceRemoved(OriginOrVillageStopIds) =>
                (schedule = <<>> /\ display = <<>>)

\* An external station lists a departure from a stop of another station of
\* its location, while a trip of an inactive service and a departure before
\* the time asked for stay off the list.
C13_Witness ==
    /\ pc = "departures"
    /\ \E k \in DOMAIN display : SourceRows(display[k], OwnStopIds) = {}
    /\ \E i \in DOMAIN stop_times :
        stop_times[i].stop_id \in OriginOrVillageStopIds /\ ~RunsOnDate(i)
    /\ \E i \in DOMAIN stop_times :
        /\ stop_times[i].stop_id \in OriginOrVillageStopIds /\ RunsOnDate(i)
        /\ ~TextLeq(query.time_str, stop_times[i].departure_time)

\* Trips call at the station, their only service is removed on the date,
\* and the list is empty.
C13_WitnessRemoved ==
    /\ pc = "departures"
    /\ \E i \in DOMAIN stop_times : stop_times[i].stop_id \in OwnStopIds
    /\ OnlyServiceRemoved(OriginOrVillageStopIds)
    /\ schedule = <<>>

Ascending(rows) ==
    \A a, b \in DOMAIN rows :
        a < b => TextLeq(rows[a].departure_time, rows[b].departure_time)

\* C14: the list get_station_schedule returns, the list shown from it and
\* the direct-connection list are each in ascending departure-time order.
C14_ListsAscending ==
    /\ pc = "departures" => (Ascending(schedule) /\ Ascending(display))
    /\ pc = "connections" => Ascending(display)

\* Three departures whose routes alternate in time order, from stop-time
\* rows that are not in time order.
C14_Witness ==
    /\ pc = "departures"
    /\ Len(schedule) >= 3
    /\ schedule[1].route_short_name # schedule[2].route_short_name
    /\ schedule[2].route_short_name # schedule[3].route_short_name
    /\ schedule[1].trip_id > schedule[2].trip_id

\* Two connections of different routes, the later trip of the feed first.
C14_WitnessConnections ==
    /\ pc = "connections"
    /\ Len(display) >= 2
    /\ display[1].route_short_name # display[2].route_short_name
    /\ display[1].trip_id > display[2].trip_id

\* C15: no departure listed for an origin station has as destination the
\* name of a station of the origin's location.
C15_NoSameVillageDestination ==
    pc = "departures" =>
        \A k \in DOMAIN display, g \in DOMAIN stations :
            stations[g].location = QueriedStation.location =>
                display[k].destination # stations[g].stop_name

\* A departure to another station of the origin's location is left out and
\* another departure is listed.
C15_Witness ==
    /\ pc = "departures"
    /\ display # <<>>
    /\ \E k \in DOMAIN schedule, g \in DOMAIN stations :
        /\ stations[g].location = QueriedStation.location
        /\ stations[g].stop_name # QueriedStation.stop_name
        /\ schedule[k].destination = stations[g].stop_name

\* The station picked as destination.
DestinationStation ==
    stations[CHOOSE g \in DOMAIN stations : stations[g].stop_name = query.dest_stop_name]

\* The visits of a trip to stops of ids.
VisitsOf(trip, ids) ==
    {i \in DOMAIN stop_times :
        stop_times[i].trip_id = trip /\ stop_times[i].stop_id \in ids}

\* The origin visits of a trip that a destination visit follows.
BoardingVisits(trip, origin_ids) ==
    {i \in VisitsOf(trip, origin_ids) :
        \E j \in VisitsOf(trip, Range(DestinationStation.stop_ids)) :
            stop_times[j].stop_sequence > stop_times[i].stop_sequence}

LowestSequence(visits) ==
    CHOOSE i \in visits :
        \A j \in visits : stop_times[i].stop_sequence <= stop_times[j].stop_sequence

\* Row is the connection of its trip: it boards at the lowest-sequence
\* origin visit that a destination visit follows and alights at the
\* lowest-sequence destination visit after that.
IsFirstConnection(row, origin_ids) ==
    LET boarding == BoardingVisits(row.trip_id, origin_ids)
        board == LowestSequence(boarding)
        alighting == {j \in VisitsOf(row.trip_id, Range(DestinationStation.stop_ids)) :
                        stop_times[j].stop_sequence > stop_times[board].stop_sequence}
        alight == LowestSequence(alighting)
    IN /\ boarding # {}
       /\ RunsOnDate(board)
       /\ row.stop_id = stop_times[board].stop_id
       /\ row.stop_sequence_orig = stop_times[board].stop_sequence
       /\ row.departure_time = stop_times[board].departure_time
       /\ row.stop_sequence_dest = stop_times[alight].stop_sequence
       /\ row.arrival_time = stop_times[alight].arrival_time
       /\ TextLeq(query.time_str, row.departure_time)

OncePerTrip(rows) ==
    \A a, b \in DOMAIN rows : a # b => rows[a].trip_id # rows[b].trip_id

\* C16 as stated: every connection listed is of a trip active on the date
\* that calls at a member stop of the origin station before a member stop of
\* the destination station; it boards at the first such origin visit, alights
\* at the first destination visit after it, is listed once and does not
\* depart before the time asked for.
C16_FirstVisitsOfMemberStops ==
    pc = "connections" =>
        /\ \A k \in DOMAIN display : IsFirstConnection(display[k], OwnStopIds)
        /\ OncePerTrip(display)

\* C16 amended: the same with, for an origin station of an external
\* location, the stops of all stations of that location as origin stops.
C16_FirstVisitsOfOriginStops ==
    pc = "connections" =>
        /\ \A k \in DOMAIN display :
                IsFirstConnection(display[k], OriginOrVillageStopIds)
        /\ OncePerTrip(display)

\* A listed connection of a trip that calls at the destination station both
\* before and after the boarding stop.
C16_Witness ==
    /\ pc = "connections"
    /\ \E k \in DOMAIN display :
        \E j \in VisitsOf(display[k].trip_id, Range(DestinationStation.stop_ids)) :
            stop_times[j].stop_sequence < display[k].stop_sequence_orig

\* A listed connection that boards at a stop of another station of the
\* origin's external location.
C16_WitnessVillage ==
    /\ pc = "connections"
    /\ \E k \in DOMAIN display : display[k].stop_id \notin OwnStopIds

\* A connection is listed while an active trip that calls at the destination
\* station and then at the origin station is not.
C16_WitnessOpposite ==
    /\ pc = "connections"
    /\ display # <<>>
    /\ \E i \in DOMAIN stop_times :
        /\ stop_times[i].stop_id \in OriginOrVillageStopIds
        /\ RunsOnDate(i)
        /\ VisitsOf(stop_times[i].trip_id, Range(DestinationStation.stop_ids)) # {}
        /\ BoardingVisits(stop_times[i].trip_id, OriginOrVillageStopIds) = {}

\* C17 as stated: no two listed connections of one route depart less than
\* 2 minutes apart.
C17_NoCloseConnectionsOfOneRoute ==
    pc = "connections" =>
        \A a, b \in DOMAIN display :
            (a < b /\ display[a].route_short_name = display[b].route_short_name) =>
                ClockMinutes(display[b].departure_time)
                    - ClockMinutes(display[a].departure_time) >= DedupWindow

(***************************************************************************)
(* Schedule queries (query_transport_schedules.py)                         *)
(***************************************************************************)
MaxQueryTrips == 2

\* transport_routes.csv: two route records carry the short name 350.
QueryRouteTable ==
    << [route_id |-> "R1", route_short_name |-> Route350, route_long_name |-> NaN],
       [route_id |-> "R2", route_short_name |-> Route360, route_long_name |-> NaN],
       [route_id |-> "R3", route_short_name |-> Route350, route_long_name |-> NaN] >>

QueryRouteIds == {"R1", "R2", "R3"}

\* Route short names asked for; no route is named 99.
QueryRouteNames == {Route350, Route360, <<"9", "9">>}

\* Location names asked for: part of "St. Ulrich" in lower case, "Bolzano",
\* and a location without stops in the feed.
UlrichQuery == <<"u", "l", "r", "i", "c", "h">>
CorvaraQuery == <<"C", "o", "r", "v", "a", "r", "a">>

QueryLocationNames == {UlrichQuery, BolzanoText, CorvaraQuery}

\* after_time values: the default and a time after the last departure.
QueryAfterTimes == {TimeText(6, 0, 0), TimeText(8, 0, 0)}

\* Every trip of the queried feed starts at 07:00:00.
QueryStart == <<420, 0>>

\* The outcome of a call: a value returned, None returned (for
\* get_route_stops the pair (None, None)), or the exception raised.
Returned(value) == [outcome |-> "returned", value |-> value]
ReturnedNone == [outcome |-> "None", value |-> None]
Raised(exception) == [outcome |-> exception, value |-> None]

\* str.contains(pattern, case=False, na=False) for a pattern of letters
Contains(text, pattern) ==
    /\ text # NaN
    /\ \E k \in 0..(Len(text) - Len(pattern)) :
        LowerText(SubSeq(text, k + 1, k + Len(pattern))) = LowerText(pattern)

\* Faulty variant: the location has to equal the name, letter case included.
StopsInLocationExact(stops_df, name) ==
    SelectSeq(stops_df, LAMBDA r : LocationText(r.location) = name)

\* stops_df[stops_df['location'].str.contains(name, case=False, na=False)]
StopsInLocation(stops_df, name) ==
    SelectSeq(stops_df, LAMBDA r : Contains(LocationText(r.location), name))

StopIdsOf(rows) == {r.stop_id : r \in Range(rows)}

\* route.iloc[0]['route_id']
FollowedRouteId(route) == route[1].route_id

get_route_stops(stops_df, routes_df, trips_df, stop_times_df, route_short_name) ==
    LET route == SelectSeq(routes_df, LAMBDA r : r.route_short_name = route_short_name)
        route_id == FollowedRouteId(route)
        route_trips == {t.trip_id : t \in {x \in Range(trips_df) : x.route_id = route_id}}
        unique_stop_ids == {r.stop_id : r \in {x \in Range(stop_times_df) :
                                                    x.trip_id \in route_trips}}
        route_stops == SelectSeq(stops_df, LAMBDA r : r.stop_id \in unique_stop_ids)
    IN IF route = <<>> THEN ReturnedNone
       ELSE Returned(<<route, route_stops>>)

get_location_routes(stops_df, routes_df, trips_df, stop_times_df, location_name) ==
    LET location_stops == StopsInLocation(stops_df, location_name)
        trip_ids == {r.trip_id : r \in {x \in Range(stop_times_df) :
                                            x.stop_id \in StopIdsOf(location_stops)}}
        route_ids == {t.route_id : t \in {x \in Range(trips_df) : x.trip_id \in trip_ids}}
    IN IF location_stops = <<>> THEN ReturnedNone
       ELSE Returned(SelectSeq(routes_df, LAMBDA r : r.route_id \in route_ids))

\* Order of sort_values('departure')
ConnectionOrder(rows) ==
    [i \in DOMAIN rows, j \in DOMAIN rows |->
        TextLess(rows[i].departure, rows[j].departure)]

\* The connection appended for one common trip.
ConnectionOf(trip_id, from_stop_times, to_stop_times, routes_df, trips_df) ==
    LET departure == SelectSeq(from_stop_times, LAMBDA r : r.trip_id = trip_id)[1]
        arrival == SelectSeq(to_stop_times, LAMBDA r : r.trip_id = trip_id)[1]
        trip_info == SelectSeq(trips_df, LAMBDA t : t.trip_id = trip_id)[1]
        route_info == SelectSeq(routes_df, LAMBDA r : r.route_id = trip_info.route_id)[1]
    IN [route |-> route_info.route_short_name,
        route_name |-> route_info.route_long_name,
        departure |-> departure.departure_time,
        arrival |-> arrival.arrival_time,
        trip_id |-> trip_id]

\* The loop over common_trips, in ascending order of trip id.
RECURSIVE ConnectionsOf(_, _, _, _, _)
ConnectionsOf(common_trips, from_stop_times, to_stop_times, routes_df, trips_df) ==
    IF common_trips = {} THEN <<>>
    ELSE LET trip_id == CHOOSE t \in common_trips : \A u \in common_trips : t <= u
         IN <<ConnectionOf(trip_id, from_stop_times, to_stop_times, routes_df, trips_df)>>
            \o ConnectionsOf(common_trips \ {trip_id}, from_stop_times,
                             to_stop_times, routes_df, trips_df)

find_connections(stops_df, routes_df, trips_df, stop_times_df, from_location, to_location, after_time) ==
    LET from_stops == StopsInLocation(stops_df, from_location)
        to_stops == StopsInLocation(stops_df, to_location)
        from_stop_times == SelectSeq(stop_times_df, LAMBDA r :
                                /\ r.stop_id \in StopIdsOf(from_stops)
                                /\ TextLeq(after_time, r.departure_time))
        to_stop_times == SelectSeq(stop_times_df, LAMBDA r :
                                r.stop_id \in StopIdsOf(to_stops))
        common_trips == {r.trip_id : r \in Range(from_stop_times)}
                            \cap {r.trip_id : r \in Range(to_stop_times)}
        connections == ConnectionsOf(common_trips, from_stop_times, to_stop_times,
                                     routes_df, trips_df)
    IN IF from_stops = <<>> \/ to_stops = <<>> THEN ReturnedNone
       \* pd.DataFrame([]) has no column 'departure' to sort by
       ELSE IF connections = <<>> THEN Raised("KeyError")
       ELSE Returned(StableSort(connections, ConnectionOrder(connections)))

\* The tables the query script loads.
InitQuery ==
    /\ pc = "loaded"
    /\ stops = DashStops
    /\ routes = QueryRouteTable
    /\ \E n \in 0..MaxQueryTrips :
        \E its \in [1..n -> Itineraries], rs \in [1..n -> QueryRouteIds] :
            /\ trips = [i \in 1..n |-> TripRow(i, rs[i], "SVC1", NaN)]
            /\ stop_times = DashStopTimes(its, [i \in 1..n |-> QueryStart], 1)
    /\ calendar = {} /\ calendar_dates = {}
    /\ target_date = None /\ active = {}
    /\ trip_destinations = <<>>
    /\ stations = <<>>
    /\ query = None
    /\ schedule = <<>>
    /\ display = <<>>
    /\ result = None
    /\ gtfs_api = None /\ disk = <<>> /\ cache = None
    /\ session = <<>> /\ now = 0 /\ downloads = 0

GetRouteStops ==
    \E route_short_name \in QueryRouteNames :
        /\ pc = "loaded"
        /\ query' = [route_short_name |-> route_short_name]
        /\ result' = get_route_stops(stops, routes, trips, stop_times, route_short_name)
        /\ pc' = "route_stops"
        /\ UNCHANGED <<feedVars, calVars, destVars, stationVars, schedule, display>>
        /\ UNCHANGED reloadVars

GetLocationRoutes ==
    \E location_name \in QueryLocationNames :
        /\ pc = "loaded"
        /\ query' = [location_name |-> location_name]
        /\ result' = get_location_routes(stops, routes, trips, stop_times, location_name)
        /\ pc' = "location_routes"
        /\ UNCHANGED <<feedVars, calVars, destVars, stationVars, schedule, display>>
        /\ UNCHANGED reloadVars

FindConnections ==
    \E from_location \in QueryLocationNames, to_location \in QueryLocationNames,
       after_time \in QueryAfterTimes :
        /\ pc = "loaded"
        /\ query' = [from_location |-> from_location, to_location |-> to_location,
                     after_time |-> after_time]
        /\ result' = find_connections(stops, routes, trips, stop_times,
                                      from_location, to_location, after_time)
        /\ pc' = "found_connections"
        /\ UNCHANGED <<feedVars, calVars, destVars, stationVars, schedule, display>>
        /\ UNCHANGED reloadVars

NextQuery == GetRouteStops \/ GetLocationRoutes \/ FindConnections

SpecQuery == InitQuery /\ [][NextQuery]_vars

\* The stops whose location matches a queried name.
StopsMatching(name) ==
    {stops[k].stop_id :
        k \in {h \in DOMAIN stops : Contains(LocationText(stops[h].location), name)}}

\* The visits of a trip to from_location that a visit to to_location follows.
QualifyingDepartures(trip) ==
    {i \in VisitsOf(trip, StopsMatching(query.from_location)) :
        \E j \in VisitsOf(trip, StopsMatching(query.to_location)) :
            stop_times[j].stop_sequence > stop_times[i].stop_sequence}

\* Connection c leaves at the first visit of its trip to from_location that
\* a visit to to_location follows, and arrives at the first such visit.
IsForwardConnection(c) ==
    LET departures == QualifyingDepartures(c.trip_id)
        first == LowestSequence(departures)
        arrivals == {j \in VisitsOf(c.trip_id, StopsMatching(query.to_location)) :
                        stop_times[j].stop_sequence > stop_times[first].stop_sequence}
    IN /\ departures # {}
       /\ c.departure = stop_times[first].departure_time
       /\ c.arrival = stop_times[LowestSequence(arrivals)].arrival_time

\* C18 as stated: find_connections reports a trip only if it calls at
\* from_location before to_location, with the departure and arrival of its
\* first such visits by sequence number.
C18_OnlyForwardConnections ==
    (pc = "found_connections" /\ result.outcome = "returned") =>
        \A k \in DOMAIN result.value : IsForwardConnection(result.value[k])

\* C19 as stated: the three query functions return and raise no exception,
\* whether or not the queried names match and a schedule satisfies the query.
C19_QueriesNeverRaise ==
    pc \in {"route_stops", "location_routes", "found_connections"} =>
        result.outcome \in {"returned", "None"}

\* The route records that carry the queried short name.
RoutesNamed(name) ==
    {routes[k].route_id :
        k \in {h \in DOMAIN routes : routes[h].route_short_name = name}}

\* The stops at which a trip of one of the routes calls.
StopsServedBy(route_ids) ==
    {stop_times[i].stop_id :
        i \in {h \in DOMAIN stop_times :
                \E t \in DOMAIN trips :
                    /\ trips[t].trip_id = stop_times[h].trip_id
                    /\ trips[t].route_id \in route_ids}}

\* C20 as stated: get_route_stops returns exactly the stops at which a trip
\* of any route record with that short name calls.
C20_RouteStopsAreUnion ==
    (pc = "route_stops" /\ RoutesNamed(query.route_short_name) # {}) =>
        StopIdsOf(result.value[2]) = StopsServedBy(RoutesNamed(query.route_short_name))

\* The route records of which some trip calls at a stop whose location
\* matches the name.
RoutesServing(name) ==
    {routes[k].route_id :
        k \in {h \in DOMAIN routes :
                \E t \in DOMAIN trips, i \in DOMAIN stop_times :
                    /\ trips[t].route_id = routes[h].route_id
                    /\ stop_times[i].trip_id = trips[t].trip_id
                    /\ stop_times[i].stop_id \in StopsMatching(name)}}

C21_WitnessCaseFolded ==
    /\ pc = "location_routes"
    /\ query.location_name = UlrichQuery
    /\ result.outcome = "returned"
    /\ Len(result.value) = 2

(***************************************************************************)
(* Stop locations (download_transport.py)                                  *)
(***************************************************************************)
\* LOCATION_MAP in the order of its entries: <<keyword, location>>.
LOCATION_MAP ==
    <<
       <<<<"o", "r", "t", "i", "s", "e", "i">>,
         <<"S", "t", ".", " ", "U", "l", "r", "i", "c", "h">>>>,
       <<<<"u", "r", "t", "i", "j", "e", "i">>,
         <<"S", "t", ".", " ", "U", "l", "r", "i", "c", "h">>>>,
       <<<<"s", "t", ".", " ", "u", "l", "r", "i", "c", "h">>,
         <<"S", "t", ".", " ", "U", "l", "r", "i", "c", "h">>>>,
       <<<<"s", ".", " ", "c", "r", "i", "s", "t", "i", "n", "a">>,
         <<"S", "t", ".", " ", "C", "h", "r", "i", "s", "t", "i", "n", "a">>>>,
       <<<<"s", "t", ".", " ", "c", "h", "r", "i", "s", "t", "i", "n", "a">>,
         <<"S", "t", ".", " ", "C", "h", "r", "i", "s", "t", "i", "n", "a">>>>,
       <<<<"s", "a", "n", "t", "a", " ", "c", "r", "i", "s", "t", "i", "n", "a">>,
         <<"S", "t", ".", " ", "C", "h", "r", "i", "s", "t", "i", "n", "a">>>>,
       <<<<"s", "i", "u", "s", "i">>,
         <<"S", "i", "u", "s", "i">>>>,
       <<<<"s", "e", "l", "v", "a", " ", "v", "a", "l", " ", "g", "a", "r", "d", "e", "n", "a">>,
         <<"W", "o", "l", "k", "e", "n", "s", "t", "e", "i", "n">>>>,
       <<<<"s", "e", "l", "v", "a", " ", "g", "a", "r", "d", "e", "n", "a">>,
         <<"W", "o", "l", "k", "e", "n", "s", "t", "e", "i", "n">>>>,
       <<<<"s", "e", "l", "v", "a", ",">>,
         <<"W", "o", "l", "k", "e", "n", "s", "t", "e", "i", "n">>>>,
       <<<<"w", "o", "l", "k", "e", "n", "s", "t", "e", "i", "n">>,
         <<"W", "o", "l", "k", "e", "n", "s", "t", "e", "i", "n">>>>,
       <<<<"p", "l", "a", "n", " ", "d", "e", " ", "g", "r", "a", "l", "b", "a">>,
         <<"W", "o", "l", "k", "e", "n", "s", "t", "e", "i", "n">>>>,
       <<<<"d", "a", "n", "t", "e", "r", "c", "e", "p", "i", "e", "s">>,
         <<"W", "o", "l", "k", "e", "n", "s", "t", "e", "i", "n">>>>,
       <<<<"a", "n", "t", "e", "r", "s", "e", "l", "v", "a">>,
         <<"R", "a", "s", "e", "n", "-", "A", "n", "t", "h", "o", "l", "z">>>>,
       <<<<"a", "n", "t", "h", "o", "l", "z">>,
         <<"R", "a", "s", "e", "n", "-", "A", "n", "t", "h", "o", "l", "z">>>>,
       <<<<"r", "a", "s", "u", "n">>,
         <<"R", "a", "s", "e", "n", "-", "A", "n", "t", "h", "o", "l", "z">>>>,
       <<<<"r", "a", "s", "e", "n">>,
         <<"R", "a", "s", "e", "n", "-", "A", "n", "t", "h", "o", "l", "z">>>>,
       <<<<"v", "a", "l", "d", "a", "o", "r", "a">>,
         <<"V", "a", "l", "d", "a", "o", "r", "a">>>>,
       <<<<"o", "l", "a", "n", "g">>,
         <<"V", "a", "l", "d", "a", "o", "r", "a">>>>,
       <<<<"b", "r", "u", "n", "i", "c", "o">>,
         <<"B", "r", "u", "n", "i", "c", "o">>>>,
       <<<<"b", "r", "u", "n", "e", "c", "k">>,
         <<"B", "r", "u", "n", "i", "c", "o">>>>,
       <<<<"d", "o", "b", "b", "i", "a", "c", "o">>,
         <<"T", "o", "b", "l", "a", "c", "h">>>>,
       <<<<"t", "o", "b", "l", "a", "c", "h">>,
         <<"T", "o", "b", "l", "a", "c", "h">>>>,
       <<<<"s", "a", "n", " ", "c", "a", "n", "d", "i", "d", "o">>,
         <<"I", "n", "n", "i", "c", "h", "e", "n">>>>,
       <<<<"i", "n", "n", "i", "c", "h", "e", "n">>,
         <<"I", "n", "n", "i", "c", "h", "e", "n">>>>,
       <<<<"b", "r", "e", "s", "s", "a", "n", "o", "n", "e">>,
         <<"B", "r", "e", "s", "s", "a", "n", "o", "n", "e">>>>,
       <<<<"b", "r", "i", "x", "e", "n">>,
         <<"B", "r", "e", "s", "s", "a", "n", "o", "n", "e">>>>,
       <<<<"c", "h", "i", "u", "s", "a">>,
         <<"K", "l", "a", "u", "s", "e", "n">>>>,
       <<<<"k", "l", "a", "u", "s", "e", "n">>,
         <<"K", "l", "a", "u", "s", "e", "n">>>>,
       <<<<"p", "o", "n", "t", "e", " ", "g", "a", "r", "d", "e", "n", "a">>,
         <<"P", "o", "n", "t", "e", " ", "G", "a", "r", "d", "e", "n", "a">>>>,
       <<<<"w", "a", "i", "d", "b", "r", "u", "c", "k">>,
         <<"P", "o", "n", "t", "e", " ", "G", "a", "r", "d", "e", "n", "a">>>>,
       <<<<"b", "o", "l", "z", "a", "n", "o">>,
         <<"B", "o", "l", "z", "a", "n", "o">>>>,
       <<<<"b", "o", "z", "e", "n">>,
         <<"B", "o", "l", "z", "a", "n", "o">>>>,
       <<<<"c", "o", "r", "v", "a", "r", "a">>,
         <<"C", "o", "r", "v", "a", "r", "a">>>>,
       <<<<"l", "a", " ", "v", "i", "l", "l", "a">>,
         <<"L", "a", " ", "V", "i", "l", "l", "a">>>>,
       <<<<"b", "a", "d", "i", "a">>,
         <<"B", "a", "d", "i", "a">>>>,
       <<<<"s", "a", "n", " ", "c", "a", "s", "s", "i", "a", "n", "o">>,
         <<"S", "a", "n", " ", "C", "a", "s", "s", "i", "a", "n", "o">>>>,
       <<<<"c", "a", "n", "a", "z", "e", "i">>,
         <<"C", "a", "n", "a", "z", "e", "i">>>>,
       <<<<"c", "a", "m", "p", "i", "t", "e", "l", "l", "o">>,
         <<"C", "a", "m", "p", "i", "t", "e", "l", "l", "o">>>>,
       <<<<"p", "o", "z", "z", "a", " ", "d", "i", " ", "f", "a", "s", "s", "a">>,
         <<"P", "o", "z", "z", "a", " ", "d", "i", " ", "F", "a", "s", "s", "a">>>>,
       <<<<"m", "o", "e", "n", "a">>,
         <<"M", "o", "e", "n", "a">>>> >>

\* REGION_MAP: <<location, region>>.
REGION_MAP ==
    <<
       <<<<"S", "t", ".", " ", "U", "l", "r", "i", "c", "h">>,
         <<"V", "a", "l", " ", "G", "a", "r", "d", "e", "n", "a">>>>,
       <<<<"S", "t", ".", " ", "C", "h", "r", "i", "s", "t", "i", "n", "a">>,
         <<"V", "a", "l", " ", "G", "a", "r", "d", "e", "n", "a">>>>,
       <<<<"W", "o", "l", "k", "e", "n", "s", "t", "e", "i", "n">>,
         <<"V", "a", "l", " ", "G", "a", "r", "d", "e", "n", "a">>>>,
       <<<<"R", "a", "s", "e", "n", "-", "A", "n", "t", "h", "o", "l", "z">>,
         <<"P", "u", "s", "t", "e", "r", " ", "V", "a", "l", "l", "e", "y">>>>,
       <<<<"V", "a", "l", "d", "a", "o", "r", "a">>,
         <<"P", "u", "s", "t", "e", "r", " ", "V", "a", "l", "l", "e", "y">>>>,
       <<<<"B", "r", "u", "n", "i", "c", "o">>,
         <<"P", "u", "s", "t", "e", "r", " ", "V", "a", "l", "l", "e", "y">>>>,
       <<<<"T", "o", "b", "l", "a", "c", "h">>,
         <<"P", "u", "s", "t", "e", "r", " ", "V", "a", "l", "l", "e", "y">>>>,
       <<<<"I", "n", "n", "i", "c", "h", "e", "n">>,
         <<"P", "u", "s", "t", "e", "r", " ", "V", "a", "l", "l", "e", "y">>>>,
       <<<<"B", "r", "e", "s", "s", "a", "n", "o", "n", "e">>,
         <<"I", "s", "a", "r", "c", "o", " ", "V", "a", "l", "l", "e", "y">>>>,
       <<<<"K", "l", "a", "u", "s", "e", "n">>,
         <<"I", "s", "a", "r", "c", "o", " ", "V", "a", "l", "l", "e", "y">>>>,
       <<<<"P", "o", "n", "t", "e", " ", "G", "a", "r", "d", "e", "n", "a">>,
         <<"I", "s", "a", "r", "c", "o", " ", "V", "a", "l", "l", "e", "y">>>>,
       <<<<"B", "o", "l", "z", "a", "n", "o">>,
         <<"B", "o", "l", "z", "a", "n", "o">>>>,
       <<<<"C", "o", "r", "v", "a", "r", "a">>,
         <<"A", "l", "t", "a", " ", "B", "a", "d", "i", "a">>>>,
       <<<<"L", "a", " ", "V", "i", "l", "l", "a">>,
         <<"A", "l", "t", "a", " ", "B", "a", "d", "i", "a">>>>,
       <<<<"B", "a", "d", "i", "a">>,
         <<"A", "l", "t", "a", " ", "B", "a", "d", "i", "a">>>>,
       <<<<"S", "a", "n", " ", "C", "a", "s", "s", "i", "a", "n", "o">>,
         <<"A", "l", "t", "a", " ", "B", "a", "d", "i", "a">>>>,
       <<<<"C", "a", "n", "a", "z", "e", "i">>,
         <<"V", "a", "l", " ", "d", "i", " ", "F", "a", "s", "s", "a">>>>,
       <<<<"C", "a", "m", "p", "i", "t", "e", "l", "l", "o">>,
         <<"V", "a", "l", " ", "d", "i", " ", "F", "a", "s", "s", "a">>>>,
       <<<<"P", "o", "z", "z", "a", " ", "d", "i", " ", "F", "a", "s", "s", "a">>,
         <<"V", "a", "l", " ", "d", "i", " ", "F", "a", "s", "s", "a">>>>,
       <<<<"M", "o", "e", "n", "a">>,
         <<"V", "a", "l", " ", "d", "i", " ", "F", "a", "s", "s", "a">>>> >>

OtherText == <<"O", "t", "h", "e", "r">>

SouthTyrolText == <<"S", "o", "u", "t", "h", " ", "T", "y", "r", "o", "l">>

\* pattern in text, on two str values
IsSubstring(pattern, text) ==
    \E k \in 0..(Len(text) - Len(pattern)) :
        SubSeq(text, k + 1, k + Len(pattern)) = pattern

\* The first entry of LOCATION_MAP, in the order of the map, whose keyword
\* occurs in the lower-cased stop name decides; "Other" if none does.
extract_location(stop_name) ==
    LET name_lower == LowerText(stop_name)
        hits == {i \in DOMAIN LOCATION_MAP : IsSubstring(LOCATION_MAP[i][1], name_lower)}
    IN IF hits = {} THEN OtherText
       ELSE LOCATION_MAP[CHOOSE i \in hits : \A j \in hits : i <= j][2]

\* REGION_MAP.get(location, "South Tyrol")
extract_region(location) ==
    LET hits == {i \in DOMAIN REGION_MAP : REGION_MAP[i][1] = location}
    IN IF hits = {} THEN SouthTyrolText
       ELSE REGION_MAP[CHOOSE i \in hits : TRUE][2]

\* Stop names are put together from a place, a separator and a street or
\* district, as in "Siusi, Piazza Oswald von Wolkenstein".
NamePlaces ==
    { <<"O", "r", "t", "i", "s", "e", "i">>,
      <<"S", "i", "u", "s", "i">>,
      <<"A", "n", "t", "e", "r", "s", "e", "l", "v", "a">>,
      <<"S", "e", "l", "v", "a">>,
      <<"A", "n", "t", "h", "o", "l", "z">>,
      <<"B", "o", "l", "z", "a", "n", "o">>,
      <<"W", "o", "l", "k", "e", "n", "s", "t", "e", "i", "n">>,
      <<"C", "a", "s", "t", "e", "l", "r", "o", "t", "t", "o">>,
      <<"R", "a", "s", "u", "n">>,
      <<"A", "l", "p", "e", " ", "d", "i", " ", "S", "i", "u", "s", "i">> }

NameDetails ==
    { <<"P", "a", "e", "s", "e">>,
      <<"P", "i", "a", "z", "z", "a", " ", "O", "s", "w", "a", "l", "d", " ", "v", "o", "n", " ", "W", "o", "l", "k", "e", "n", "s", "t", "e", "i", "n">>,
      <<"V", "i", "a", " ", "S", "i", "u", "s", "i">>,
      <<"d", "i", " ", "M", "e", "z", "z", "o">>,
      <<"S", "e", "l", "v", "a", " ", "G", "a", "r", "d", "e", "n", "a">>,
      <<"A", "n", "t", "e", "r", "s", "e", "l", "v", "a">> }

NameSeparators == {<<",", " ">>, <<" ">>}

StopNames ==
    {place \o sep \o detail :
        place \in NamePlaces, sep \in NameSeparators, detail \in NameDetails}

SiusiKeyword == <<"s", "i", "u", "s", "i">>
AnterselvaKeyword == <<"a", "n", "t", "e", "r", "s", "e", "l", "v", "a">>
SiusiText == <<"S", "i", "u", "s", "i">>
RasenAntholzText == <<"R", "a", "s", "e", "n", "-", "A", "n", "t", "h", "o", "l", "z">>
WolkensteinText == <<"W", "o", "l", "k", "e", "n", "s", "t", "e", "i", "n">>

\* The script has read a stop name.
InitLocation ==
    /\ pc = "loaded"
    /\ stops = <<>> /\ routes = <<>> /\ trips = <<>> /\ stop_times = <<>>
    /\ calendar = {} /\ calendar_dates = {}
    /\ target_date = None /\ active = {}
    /\ trip_destinations = <<>>
    /\ stations = <<>>
    /\ query = None
    /\ schedule = <<>>
    /\ display = <<>>
    /\ result = None
    /\ gtfs_api = None /\ disk = <<>> /\ cache = None
    /\ session = <<>> /\ now = 0 /\ downloads = 0

ExtractLocation ==
    \E stop_name \in StopNames :
        /\ pc = "loaded"
        /\ query' = [stop_name |-> stop_name]
        /\ result' = Returned(extract_location(stop_name))
        /\ pc' = "location"
        /\ UNCHANGED <<feedVars, calVars, destVars, stationVars, schedule, display>>
        /\ UNCHANGED reloadVars

NextLocation == ExtractLocation

SpecLocation == InitLocation /\ [][NextLocation]_vars

\* C30 as stated: every stop name that contains "siusi" is classified Siusi
\* and every stop name that contains "anterselva" is classified
\* Rasen-Antholz, names of the form "Anterselva, ..." included. A name that
\* contains both keywords is left aside.
C30_SpecificKeywordsWin ==
    pc = "location" =>
        LET name_lower == LowerText(query.stop_name)
            siusi == IsSubstring(SiusiKeyword, name_lower)
            anterselva == IsSubstring(AnterselvaKeyword, name_lower)
        IN /\ (siusi /\ ~anterselva) => result.value = SiusiText
           /\ (anterselva /\ ~siusi) => result.value = RasenAntholzText

(***************************************************************************)
(* The dedup pass, route by route                                          *)
(***************************************************************************)
\* The departure minutes of the candidate rows of a route.
CandidateMinutes(name) ==
    {MinutesOf(i) : i \in {c \in Candidates : RouteNameOf(c) = name}}

\* The rows of a route on the board, and their departure minutes.
KeptRows(name) ==
    {k \in DOMAIN schedule : schedule[k].route_short_name = name}

KeptMinutes(name) ==
    {ClockMinutes(schedule[k].departure_time) : k \in KeptRows(name)}

\* C27: within each route a row's minute is kept iff it lies at least
\* DedupWindow minutes after every earlier kept minute of that route (the
\* gap is measured from the last kept row, not the last seen one); one row
\* is kept per kept minute, so the earliest minute of a route is always
\* kept and rows of other routes have no part in it.
C27_DropWithinWindowOfLastKept ==
    pc = "schedule" =>
        \A r \in DOMAIN routes :
            LET name == routes[r].route_short_name
                M == CandidateMinutes(name)
                K == KeptMinutes(name)
            IN /\ K \subseteq M
               /\ \A m \in M :
                    m \in K <=> \A k \in K : k < m => m - k >= DedupWindow
               /\ Cardinality(KeptRows(name)) = Cardinality(K)

\* Three rows of one route at consecutive minutes: the first and the third
\* are kept, the third being 1 minute after the dropped second.
C27_Witness ==
    /\ pc = "schedule"
    /\ \E r \in DOMAIN routes :
        LET name == routes[r].route_short_name
        IN \E m \in CandidateMinutes(name) :
            /\ CandidateMinutes(name) = {m, m + 1, m + 2}
            /\ KeptMinutes(name) = {m, m + 2}

\* Rows of two routes 1 minute apart, both kept.
C27_WitnessOtherRoute ==
    /\ pc = "schedule"
    /\ \E i, j \in Candidates :
        /\ RouteNameOf(i) # RouteNameOf(j)
        /\ Gap(i, j) = 1
        /\ Shown(i) /\ Shown(j)

(***************************************************************************)
(* Trips without stop-times                                                *)
(***************************************************************************)
\* The headsigns the headsigned trips of a trip's route declare.
SiblingHeadsigns(t) == {trips[j].trip_headsign : j \in HeadsignedSiblings(t)}

C26_WitnessHeadsign ==
    /\ pc = "destinations"
    /\ \E i \in DOMAIN trips :
        /\ TripStopTimes(trips[i].trip_id) = {}
        /\ Declared(trips[i])
        /\ DestinationOf(trips[i].trip_id) = trips[i].trip_headsign

\* A trip without stop-times and with a blank headsign resolves to the
\* headsign of a sibling.
C26_WitnessSibling ==
    /\ pc = "destinations"
    /\ \E i \in DOMAIN trips :
        /\ TripStopTimes(trips[i].trip_id) = {}
        /\ ~Declared(trips[i])
        /\ HeadsignedSiblings(trips[i]) # {}
        /\ DestinationOf(trips[i].trip_id) \in SiblingHeadsigns(trips[i])

(***************************************************************************)
(* Queries against the loaded snapshot                                     *)
(***************************************************************************)
MaxSnapshotTrips == 2

\* Faulty variant: the expanded stop_ids are written into the row of the
\* stations frame itself.
StationsAfterExpandInPlace(sts, station_name, stop_ids) ==
    [g \in DOMAIN sts |->
        IF sts[g].stop_name = station_name
        THEN [sts[g] EXCEPT !.stop_ids = stop_ids]
        ELSE sts[g]]

\* station_row = station_row.copy(); station_row['stop_ids'] = ...: the
\* stations frame after the assignment to the copy of its row.
StationsAfterExpand(sts, station_name, stop_ids) == sts

\* What load_data returned and cached: the tables, the destinations of the
\* trips and the stations.
InitSnapshot ==
    /\ pc = "loaded"
    /\ stops = DashStops
    /\ routes = RouteTable
    /\ \E n \in 0..MaxSnapshotTrips :
        \E its \in [1..n -> Itineraries], starts \in [1..n -> DashStarts] :
            /\ trips = DashTrips(its)
            /\ stop_times = DashStopTimes(its, starts, 1)
    /\ calendar = DashCalendar
    /\ calendar_dates \in {{}, DashExceptions}
    /\ trip_destinations = compute_trip_destinations(stop_times, stops, trips)
    /\ stations = consolidate_stops(stops, stop_times)
    /\ target_date = None /\ active = {}
    /\ query = None
    /\ schedule = <<>>
    /\ display = <<>>
    /\ result = None
    /\ gtfs_api = None /\ disk = <<>> /\ cache = None
    /\ session = <<>> /\ now = 0 /\ downloads = 0

\* A run of the script with "All destinations", on the snapshot as it is.
RerunDepartures ==
    \E station_name \in StationOptions(stations), date \in DashDates,
       time_str \in DashAfterTimes :
        LET active_services == get_active_service_ids(calendar, calendar_dates, date)
            active_stop_times == ActiveStopTimes(trips, stop_times, active_services)
            picked == StationNamed(stations, station_name)
            stop_ids == OriginStopIds(stations, picked)
            station_row == [picked EXCEPT !.stop_ids = stop_ids]
            sched == get_station_schedule(station_row, active_stop_times, trips,
                                          routes, trip_destinations, time_str)
        IN /\ target_date' = date
           /\ active' = active_services
           /\ query' = [station_name |-> station_name, dest_stop_name |-> None,
                        time_str |-> time_str]
           /\ stations' = StationsAfterExpand(stations, station_name, stop_ids)
           /\ schedule' = sched
           /\ display' = SameVillageFilter(sched, stations, station_row)
           /\ pc' = "departures"
           /\ UNCHANGED <<feedVars, calendar, calendar_dates, destVars, result>>
           /\ UNCHANGED reloadVars

\* A run of the script with a destination stop picked.
RerunConnections ==
    \E station_name \in StationOptions(stations), date \in DashDates,
       time_str \in DashAfterTimes :
        \E dest_stop_name \in DestinationOptions(stations,
                                StationNamed(stations, station_name).location) :
            LET active_services == get_active_service_ids(calendar, calendar_dates, date)
                active_stop_times == ActiveStopTimes(trips, stop_times, active_services)
            IN /\ target_date' = date
               /\ active' = active_services
               /\ query' = [station_name |-> station_name,
                            dest_stop_name |-> dest_stop_name,
                            time_str |-> time_str]
               /\ display' = DirectConnections(stations, active_stop_times, trips,
                                               routes, trip_destinations,
                                               station_name, dest_stop_name, time_str)
               /\ pc' = "connections"
               /\ UNCHANGED <<feedVars, calendar, calendar_dates, destVars,
                              stationVars, schedule, result>>
               /\ UNCHANGED reloadVars

\* consolidate_stops called again on the tables of the snapshot.
RerunConsolidateStops ==
    /\ stations' = consolidate_stops(stops, stop_times)
    /\ pc' = "stations"
    /\ UNCHANGED <<feedVars, calVars, destVars, schedVars>>
    /\ UNCHANGED reloadVars

\* compute_trip_destinations called again on the tables of the snapshot.
RerunComputeTripDestinations ==
    /\ trip_destinations' = compute_trip_destinations(stop_times, stops, trips)
    /\ pc' = "destinations"
    /\ UNCHANGED <<feedVars, calVars, stationVars, schedVars>>
    /\ UNCHANGED reloadVars

NextSnapshot ==
    \/ RerunDepartures
    \/ RerunConnections
    \/ RerunConsolidateStops
    \/ RerunComputeTripDestinations

SpecSnapshot == InitSnapshot /\ [][NextSnapshot]_vars

\* The tables of the snapshot.
snapshotVars ==
    <<stops, routes, trips, stop_times, calendar, calendar_dates, stations,
      trip_destinations>>

MIN_LATITUDE == 4649

IsDigit(c) == \E i \in DOMAIN Digits : Digits[i] = c

\* int(text) succeeds: the text is a run of decimal digits.
IsIntText(t) == t # <<>> /\ \A i \in DOMAIN t : IsDigit(t[i])

\* float(text) succeeds: digits with at most one decimal point.
IsFloatText(t) ==
    /\ \A i \in DOMAIN t : IsDigit(t[i]) \/ t[i] = "."
    /\ Cardinality({i \in DOMAIN t : t[i] = "."}) <= 1
    /\ \E i \in DOMAIN t : IsDigit(t[i])

\* float(text) in hundredths, for a text with at most two decimals
ParseFloat(t) ==
    LET parts == SplitText(t, ".")
        frac == IF Len(parts) = 1 THEN <<>> ELSE parts[2]
    IN 100 * ParseInt(parts[1])
        + (IF Len(frac) = 0 THEN 0
           ELSE IF Len(frac) = 1 THEN 10 * ParseInt(frac)
           ELSE ParseInt(SubSeq(frac, 1, 2)))

\* str(n) of a natural number
RECURSIVE IntText(_)
IntText(n) ==
    IF n < 10 THEN <<Digits[n + 1]>>
    ELSE IntText(n \div 10) \o <<Digits[(n % 10) + 1]>>

\* str(x) of a float of hundredths, as csv.DictWriter writes it
FloatText(h) ==
    IntText(h \div 100) \o <<".">>
        \o (IF h % 10 = 0 THEN <<Digits[((h % 100) \div 10) + 1]>>
            ELSE <<Digits[((h % 100) \div 10) + 1], Digits[(h % 10) + 1]>>)

BusText == <<"B", "u", "s">>
UnknownText == <<"U", "n", "k", "n", "o", "w", "n">>

\* ROUTE_TYPES.get(route_type, "Unknown")
RouteTypeName(route_type) ==
    CASE route_type = 0 -> <<"T", "r", "a", "m">>
      [] route_type = 1 -> <<"M", "e", "t", "r", "o">>
      [] route_type = 2 -> <<"R", "a", "i", "l">>
      [] route_type = 3 -> BusText
      [] route_type = 4 -> <<"F", "e", "r", "r", "y">>
      [] route_type = 5 -> <<"C", "a", "b", "l", "e", " ", "T", "r", "a", "m">>
      [] route_type = 6 -> <<"A", "e", "r", "i", "a", "l", " ", "L", "i", "f", "t">>
      [] route_type = 7 -> <<"F", "u", "n", "i", "c", "u", "l", "a", "r">>
      [] route_type = 11 -> <<"T", "r", "o", "l", "l", "e", "y", "b", "u", "s">>
      [] route_type = 12 -> <<"M", "o", "n", "o", "r", "a", "i", "l">>
      [] OTHER -> UnknownText

\* a < b on two tuples of str values
RECURSIVE TupleLess(_, _)
TupleLess(a, b) ==
    /\ a # <<>>
    /\ \/ TextLess(Head(a), Head(b))
       \/ (Head(a) = Head(b) /\ TupleLess(Tail(a), Tail(b)))

\* A dict as the sequence of its values in insertion order: d[key] = row.
DictPut(d, key, row) ==
    IF \E i \in DOMAIN d : d[i][key] = row[key]
    THEN [i \in DOMAIN d |-> IF d[i][key] = row[key] THEN row ELSE d[i]]
    ELSE Append(d, row)

DictKeys(d, key) == {d[i][key] : i \in DOMAIN d}

DictGet(d, key, k) == d[CHOOSE i \in DOMAIN d : d[i][key] = k]

\* response.raise_for_status(), then the zip archive of the response
download_gtfs(server) ==
    IF server.status >= 400 THEN Raised("HTTPError")
    ELSE Returned(server.zip)

\* The loop of parse_stops over the rows of stops.txt
RECURSIVE ParseStopRows(_, _)
ParseStopRows(rows, stops_dict) ==
    IF rows = <<>> THEN stops_dict
    ELSE LET row == Head(rows)
             location == extract_location(row.stop_name)
         IN IF ~(IsFloatText(row.stop_lat) /\ IsFloatText(row.stop_lon))
            THEN ParseStopRows(Tail(rows), stops_dict)
            ELSE IF ParseFloat(row.stop_lat) < MIN_LATITUDE
            THEN ParseStopRows(Tail(rows), stops_dict)
            ELSE ParseStopRows(Tail(rows),
                    DictPut(stops_dict, "stop_id",
                        [stop_id |-> row.stop_id,
                         stop_name |-> row.stop_name,
                         stop_lat |-> ParseFloat(row.stop_lat),
                         stop_lon |-> ParseFloat(row.stop_lon),
                         location |-> location,
                         region |-> extract_region(location)]))

parse_stops(gtfs_zip) == Returned(ParseStopRows(gtfs_zip.stops, <<>>))

\* The loop of parse_routes over the rows of routes.txt
RECURSIVE ParseRouteRows(_, _)
ParseRouteRows(rows, routes_dict) ==
    IF rows = <<>> THEN routes_dict
    ELSE LET row == Head(rows)
         IN ParseRouteRows(Tail(rows),
                DictPut(routes_dict, "route_id",
                    [route_id |-> row.route_id,
                     route_short_name |-> row.route_short_name,
                     route_long_name |-> row.route_long_name,
                     route_type |-> RouteTypeName(ParseInt(row.route_type)),
                     agency_id |-> row.agency_id]))

\* int(row.get("route_type", 3)) raises ValueError on a text that is not a
\* number; nothing catches it.
parse_routes(gtfs_zip) ==
    IF \E i \in DOMAIN gtfs_zip.routes : ~IsIntText(gtfs_zip.routes[i].route_type)
    THEN Raised("ValueError")
    ELSE Returned(ParseRouteRows(gtfs_zip.routes, <<>>))

RECURSIVE ParseAgencyRows(_, _)
ParseAgencyRows(rows, agencies) ==
    IF rows = <<>> THEN agencies
    ELSE ParseAgencyRows(Tail(rows),
            DictPut(agencies, "agency_id",
                [agency_id |-> Head(rows).agency_id,
                 agency_name |-> Head(rows).agency_name]))

parse_agencies(gtfs_zip) == Returned(ParseAgencyRows(gtfs_zip.agency, <<>>))

\* The loop of parse_trips; trip_route_map is the route_id column of trips.
RECURSIVE ParseTripRows(_, _)
ParseTripRows(rows, trips_dict) ==
    IF rows = <<>> THEN trips_dict
    ELSE LET row == Head(rows)
         IN ParseTripRows(Tail(rows),
                DictPut(trips_dict, "trip_id",
                    [trip_id |-> row.trip_id,
                     route_id |-> row.route_id,
                     service_id |-> row.service_id,
                     trip_headsign |-> row.trip_headsign,
                     direction_id |-> row.direction_id,
                     shape_id |-> row.shape_id]))

parse_trips(gtfs_zip) == Returned(ParseTripRows(gtfs_zip.trips, <<>>))

\* The routes of which a trip calls at a stop of the region.
find_routes_serving_stops(gtfs_zip, dolomites_stops, trips_dict, routes_dict) ==
    LET serving == {r \in Range(gtfs_zip.stop_times) :
                        /\ r.stop_id \in DictKeys(dolomites_stops, "stop_id")
                        /\ r.trip_id \in DictKeys(trips_dict, "trip_id")}
        route_ids_serving_dolomites ==
            {DictGet(trips_dict, "trip_id", r.trip_id).route_id : r \in serving}
    IN SelectSeq(routes_dict, LAMBDA r : r.route_id \in route_ids_serving_dolomites)

\* dolomites_trips: the trips of those routes
DolomitesTrips(trips_dict, dolomites_routes) ==
    SelectSeq(trips_dict, LAMBDA t :
        t.route_id \in DictKeys(dolomites_routes, "route_id"))

parse_stop_times(gtfs_zip, dolomites_stops, dolomites_trips) ==
    LET kept == SelectSeq(gtfs_zip.stop_times, LAMBDA r :
                    /\ r.trip_id \in DictKeys(dolomites_trips, "trip_id")
                    /\ r.stop_id \in DictKeys(dolomites_stops, "stop_id"))
    IN Returned([i \in DOMAIN kept |->
                    [trip_id |-> kept[i].trip_id,
                     arrival_time |-> kept[i].arrival_time,
                     departure_time |-> kept[i].departure_time,
                     stop_id |-> kept[i].stop_id,
                     stop_sequence |-> kept[i].stop_sequence,
                     pickup_type |-> kept[i].pickup_type,
                     drop_off_type |-> kept[i].drop_off_type]])

\* Rows with a missing start_date or end_date are skipped.
parse_calendar(gtfs_zip) ==
    Returned(SelectSeq(gtfs_zip.calendar, LAMBDA r :
        Strip(r.start_date) # <<>> /\ Strip(r.end_date) # <<>>))

\* Rows with a missing date or exception_type are skipped.
parse_calendar_dates(gtfs_zip) ==
    Returned(SelectSeq(gtfs_zip.calendar_dates, LAMBDA r :
        Strip(r.date) # <<>> /\ Strip(r.exception_type) # <<>>))

\* Order of sorted(stops.values(), key=(region, location, stop_name))
StopOrder(rows) ==
    [i \in DOMAIN rows, j \in DOMAIN rows |->
        TupleLess(<<rows[i].region, rows[i].location, rows[i].stop_name>>,
                  <<rows[j].region, rows[j].location, rows[j].stop_name>>)]

save_stops_csv(stops_dict) ==
    LET sorted_stops == StableSort(stops_dict, StopOrder(stops_dict))
    IN Returned([i \in DOMAIN sorted_stops |->
                    [sorted_stops[i] EXCEPT
                        !.stop_lat = FloatText(sorted_stops[i].stop_lat),
                        !.stop_lon = FloatText(sorted_stops[i].stop_lon)]])

\* Order of sorted(routes.values(), key=(route_type, route_short_name))
RouteOrder(rows) ==
    [i \in DOMAIN rows, j \in DOMAIN rows |->
        TupleLess(<<rows[i].route_type, rows[i].route_short_name>>,
                  <<rows[j].route_type, rows[j].route_short_name>>)]

save_routes_csv(routes_dict, agencies) ==
    LET sorted_routes == StableSort(routes_dict, RouteOrder(routes_dict))
    IN Returned([i \in DOMAIN sorted_routes |->
                    [route_id |-> sorted_routes[i].route_id,
                     route_short_name |-> sorted_routes[i].route_short_name,
                     route_long_name |-> sorted_routes[i].route_long_name,
                     route_type |-> sorted_routes[i].route_type,
                     agency_name |->
                        IF sorted_routes[i].agency_id \in DictKeys(agencies, "agency_id")
                        THEN DictGet(agencies, "agency_id",
                                     sorted_routes[i].agency_id).agency_name
                        ELSE UnknownText]])

\* Order of sorted(trips.values(), key=(route_id, trip_id))
TripOrder(rows) ==
    [i \in DOMAIN rows, j \in DOMAIN rows |->
        TupleLess(<<rows[i].route_id, rows[i].trip_id>>,
                  <<rows[j].route_id, rows[j].trip_id>>)]

save_trips_csv(trips_dict) == Returned(StableSort(trips_dict, TripOrder(trips_dict)))

\* x.get("stop_sequence", "0") or "0"
SequenceOrZero(row) == IF row.stop_sequence = <<>> THEN <<"0">> ELSE row.stop_sequence

\* Order of sorted(stop_times, key=(trip_id, int(stop_sequence or "0")))
StopTimeOrder(rows) ==
    [i \in DOMAIN rows, j \in DOMAIN rows |->
        \/ TextLess(rows[i].trip_id, rows[j].trip_id)
        \/ /\ rows[i].trip_id = rows[j].trip_id
           /\ ParseInt(SequenceOrZero(rows[i])) < ParseInt(SequenceOrZero(rows[j]))]

\* The sort key calls int() on every stop_sequence: a text that is not a
\* number raises ValueError after the file was opened for writing.
save_stop_times_csv(stop_times_list) ==
    IF \E i \in DOMAIN stop_times_list : ~IsIntText(SequenceOrZero(stop_times_list[i]))
    THEN Raised("ValueError")
    ELSE Returned(StableSort(stop_times_list, StopTimeOrder(stop_times_list)))

save_calendar_csv(calendar_entries) == Returned(calendar_entries)

\* Order of sorted(calendar_dates, key=(date, service_id))
ExceptionOrder(rows) ==
    [i \in DOMAIN rows, j \in DOMAIN rows |->
        TupleLess(<<rows[i].date, rows[i].service_id>>,
                  <<rows[j].date, rows[j].service_id>>)]

save_calendar_dates_csv(exceptions) ==
    Returned(StableSort(exceptions, ExceptionOrder(exceptions)))

\* The six CSV files in the order refresh_gtfs_data saves them.
SaveOrder ==
    <<"stops", "routes", "trips", "stop_times", "calendar", "calendar_dates">>

\* The parsing part of refresh_gtfs_data: every table is parsed before any
\* file is saved; the first exception ends the refresh.
ParseFeed(gtfs_zip) ==
    LET stops_dict == parse_stops(gtfs_zip).value
        parsed_routes == parse_routes(gtfs_zip)
        agencies == parse_agencies(gtfs_zip).value
        trips_dict == parse_trips(gtfs_zip).value
        dolomites_routes == find_routes_serving_stops(gtfs_zip, stops_dict,
                                trips_dict, parsed_routes.value)
        dolomites_trips == DolomitesTrips(trips_dict, dolomites_routes)
    IN IF parsed_routes.outcome # "returned" THEN parsed_routes
       ELSE Returned([stops |-> stops_dict,
                      routes |-> dolomites_routes,
                      agencies |-> agencies,
                      trips |-> dolomites_trips,
                      stop_times |-> parse_stop_times(gtfs_zip, stops_dict,
                                                      dolomites_trips).value,
                      calendar |-> parse_calendar(gtfs_zip).value,
                      calendar_dates |-> parse_calendar_dates(gtfs_zip).value])

\* The save_*_csv call that writes a file.
SaveTable(parsed, table) ==
    CASE table = "stops" -> save_stops_csv(parsed.stops)
      [] table = "routes" -> save_routes_csv(parsed.routes, parsed.agencies)
      [] table = "trips" -> save_trips_csv(parsed.trips)
      [] table = "stop_times" -> save_stop_times_csv(parsed.stop_times)
      [] table = "calendar" -> save_calendar_csv(parsed.calendar)
      [] table = "calendar_dates" -> save_calendar_dates_csv(parsed.calendar_dates)

\* A file that does not exist.
MissingFile == [exists |-> FALSE, mtime |-> 0, feed |-> 0, rows |-> <<>>]

\* open(output_file, "w") and the rows written: the file of download number
\* feed; when the save raised, only the header line is in it.
WrittenFile(saved, feed, time) ==
    [exists |-> TRUE, mtime |-> time, feed |-> feed,
     rows |-> IF saved.outcome = "returned" THEN saved.value ELSE <<>>]

\* The saves of refresh_gtfs_data from the k-th file on; a save that raises
\* ends the refresh with the later files untouched.
RECURSIVE SaveFrom(_, _, _, _, _)
SaveFrom(k, parsed, files, feed, time) ==
    IF k > Len(SaveOrder) THEN [outcome |-> "returned", disk |-> files]
    ELSE LET saved == SaveTable(parsed, SaveOrder[k])
             written == [files EXCEPT ![SaveOrder[k]] = WrittenFile(saved, feed, time)]
         IN IF saved.outcome # "returned"
            THEN [outcome |-> saved.outcome, disk |-> written]
            ELSE SaveFrom(k + 1, parsed, written, feed, time)

\* refresh_gtfs_data saving each table as soon as it is parsed.
refresh_gtfs_data_eager(api, files, feed, time) ==
    LET gtfs_zip == download_gtfs(api)
        parsed == ParseFeed(gtfs_zip.value)
        stops_saved == save_stops_csv(parse_stops(gtfs_zip.value).value)
    IN IF gtfs_zip.outcome # "returned"
       THEN [outcome |-> gtfs_zip.outcome, disk |-> files]
       ELSE IF parsed.outcome # "returned"
       THEN [outcome |-> parsed.outcome,
             disk |-> [files EXCEPT !.stops = WrittenFile(stops_saved, feed, time)]]
       ELSE SaveFrom(1, parsed.value, files, feed, time)

\* refresh_gtfs_data: its outcome and the files after it.
refresh_gtfs_data(api, files, feed, time) ==
    LET gtfs_zip == download_gtfs(api)
        parsed == ParseFeed(gtfs_zip.value)
    IN IF gtfs_zip.outcome # "returned"
       THEN [outcome |-> gtfs_zip.outcome, disk |-> files]
       ELSE IF parsed.outcome # "returned"
       THEN [outcome |-> parsed.outcome, disk |-> files]
       ELSE SaveFrom(1, parsed.value, files, feed, time)

(***************************************************************************)
(* Feeds                                                                   *)
(***************************************************************************)
MaxFeedRows == 2

RawStop(id, name, lat, lon) ==
    [stop_id |-> id, stop_name |-> name, stop_lat |-> lat, stop_lon |-> lon]

RawRoute(id, short_name, route_type) ==
    [route_id |-> id, route_short_name |-> short_name, route_long_name |-> <<>>,
     route_type |-> route_type, agency_id |-> <<"A", "1">>]

RawTrip(id, route) ==
    [trip_id |-> id, route_id |-> route, service_id |-> <<"S", "V", "C", "1">>,
     trip_headsign |-> <<>>, direction_id |-> <<"0">>, shape_id |-> <<>>]

RawStopTime(trip, stop, seq) ==
    [trip_id |-> trip, arrival_time |-> TimeText(7, 0, 0),
     departure_time |-> TimeText(7, 0, 0), stop_id |-> stop,
     stop_sequence |-> seq, pickup_type |-> <<"0">>, drop_off_type |-> <<"0">>]

RawCalendar(service, start_date, end_date) ==
    [service_id |-> service, monday |-> <<"1">>, tuesday |-> <<"1">>,
     wednesday |-> <<"1">>, thursday |-> <<"1">>, friday |-> <<"1">>,
     saturday |-> <<"0">>, sunday |-> <<"0">>,
     start_date |-> start_date, end_date |-> end_date]

RawException(service, date, exception_type) ==
    [service_id |-> service, date |-> date, exception_type |-> exception_type]

\* A feed of one stop, one route, one trip calling at the stop, one weekly
\* service and one exception, every row well formed.
BaseFeed ==
    [stops |-> << RawStop(<<"S", "1">>, OrtiseiSarteur, <<"4", "6", ".", "5", "7">>, <<"1", "1", ".", "6", "7">>) >>,
     routes |-> << RawRoute(<<"R", "1">>, Route350, <<"3">>) >>,
     agency |-> << [agency_id |-> <<"A", "1">>, agency_name |-> <<"S", "A", "D">>] >>,
     trips |-> << RawTrip(<<"T", "1">>, <<"R", "1">>) >>,
     stop_times |-> << RawStopTime(<<"T", "1">>, <<"S", "1">>, <<"1">>) >>,
     calendar |-> << RawCalendar(<<"S", "V", "C", "1">>, <<"2", "0", "2", "4", "0", "1", "0", "1">>, <<"2", "0", "2", "4", "1", "2", "3", "1">>) >>,
     calendar_dates |-> << RawException(<<"S", "V", "C", "1">>, <<"2", "0", "2", "4", "0", "6", "0", "1">>, <<"2">>) >>]

\* The rows a table of a feed is made of: the row of BaseFeed, a second well
\* formed row, and malformed rows (a coordinate, route type or sequence
\* number that is not a number, a required field left empty). The stop in
\* Trento is well formed and lies south of MIN_LATITUDE.
FeedRows ==
    [stops |-> { BaseFeed.stops[1],
                 RawStop(<<"S", "2">>, BolzanoStazione, <<"4", "6", ".", "5">>, <<"1", "1", ".", "3", "5">>),
                 RawStop(<<"S", "3">>, OrtiseiRasciesa, <<"a", "b", "c">>, <<"1", "1", ".", "6">>),
                 RawStop(<<"S", "4">>, <<"T", "r", "e", "n", "t", "o">>, <<"4", "6", ".", "0", "7">>, <<"1", "1", ".", "1", "2">>) },
     routes |-> { BaseFeed.routes[1],
                  RawRoute(<<"R", "2">>, Route360, <<"3">>),
                  RawRoute(<<"R", "3">>, <<"3", "5", "1">>, <<"b", "u", "s">>),
                  RawRoute(<<"R", "4">>, <<"3", "5", "2">>, <<>>) },
     trips |-> { BaseFeed.trips[1],
                 RawTrip(<<"T", "2">>, <<"R", "1">>),
                 RawTrip(<<>>, <<"R", "1">>) },
     stop_times |-> { BaseFeed.stop_times[1],
                      RawStopTime(<<"T", "1">>, <<"S", "1">>, <<"2">>),
                      RawStopTime(<<"T", "1">>, <<"S", "1">>, <<"x">>),
                      RawStopTime(<<"T", "1">>, <<"S", "1">>, <<>>),
                      RawStopTime(<<>>, <<"S", "1">>, <<"3">>) },
     calendar |-> { BaseFeed.calendar[1],
                    RawCalendar(<<"S", "V", "C", "2">>, <<"2", "0", "2", "4", "0", "1", "0", "1">>, <<"2", "0", "2", "4", "1", "2", "3", "1">>),
                    RawCalendar(<<"S", "V", "C", "3">>, <<>>, <<"2", "0", "2", "4", "1", "2", "3", "1">>) },
     calendar_dates |-> { BaseFeed.calendar_dates[1],
                          RawException(<<"S", "V", "C", "2">>, <<"2", "0", "2", "4", "0", "6", "0", "1">>, <<"1">>),
                          RawException(<<"S", "V", "C", "1">>, <<>>, <<"1">>) }]

\* The feeds on offer: BaseFeed with one table replaced by up to
\* MaxFeedRows rows, in any order.
FeedsVarying(table) ==
    {[BaseFeed EXCEPT ![table] = rows] :
        rows \in UNION {[1..n -> FeedRows[table]] : n \in 0..MaxFeedRows}}

Feeds == UNION {FeedsVarying(table) : table \in Range(SaveOrder)}

\* No file of the data directory exists yet.
MissingDisk == [t \in Range(SaveOrder) |-> MissingFile]

\* The files an earlier refresh of BaseFeed left; it counts as download 0.
PreviousDisk == SaveFrom(1, ParseFeed(BaseFeed).value, MissingDisk, 0, 0).disk

\* download_transport.py is about to run: the API serves a feed or an error
\* status, and the data directory is empty or holds the previous feed.
InitFeed ==
    /\ pc = "loaded"
    /\ stops = <<>> /\ routes = <<>> /\ trips = <<>> /\ stop_times = <<>>
    /\ calendar = {} /\ calendar_dates = {}
    /\ target_date = None /\ active = {}
    /\ trip_destinations = <<>>
    /\ stations = <<>>
    /\ query = None
    /\ schedule = <<>>
    /\ display = <<>>
    /\ result = None
    /\ gtfs_api \in {[status |-> status, zip |-> zip] :
                        status \in {200, 503}, zip \in Feeds}
    /\ disk \in {MissingDisk, PreviousDisk}
    /\ cache = None
    /\ session = <<>>
    /\ now = 1
    /\ downloads = 0

RefreshGtfsData ==
    LET refreshed == refresh_gtfs_data(gtfs_api, disk, downloads + 1, now)
    IN /\ pc = "loaded"
       /\ result' = IF refreshed.outcome = "returned" THEN Returned(TRUE)
                     ELSE Raised(refreshed.outcome)
       /\ disk' = refreshed.disk
       /\ downloads' = downloads + 1
       /\ pc' = "refreshed"
       /\ UNCHANGED <<feedVars, calVars, destVars, stationVars, query, schedule,
                      display, gtfs_api, cache, session, now>>

NextFeed == RefreshGtfsData

SpecFeed == InitFeed /\ [][NextFeed]_vars

\* The rows of a feed that are well formed: every required field is there
\* and coordinates, route types and sequence numbers are numbers.
WellFormedRows(zip) ==
    [zip EXCEPT
        !.stops = SelectSeq(zip.stops, LAMBDA r :
            r.stop_id # <<>> /\ IsFloatText(r.stop_lat) /\ IsFloatText(r.stop_lon)),
        !.routes = SelectSeq(zip.routes, LAMBDA r :
            r.route_id # <<>> /\ IsIntText(r.route_type)),
        !.trips = SelectSeq(zip.trips, LAMBDA r :
            r.trip_id # <<>> /\ r.route_id # <<>>),
        !.stop_times = SelectSeq(zip.stop_times, LAMBDA r :
            r.trip_id # <<>> /\ r.stop_id # <<>> /\ IsIntText(r.stop_sequence)),
        !.calendar = SelectSeq(zip.calendar, LAMBDA r :
            r.service_id # <<>> /\ r.start_date # <<>> /\ r.end_date # <<>>),
        !.calendar_dates = SelectSeq(zip.calendar_dates, LAMBDA r :
            r.service_id # <<>> /\ r.date # <<>> /\ r.exception_type # <<>>)]

\* C24 as stated: when the feed was downloaded, a malformed row of any
\* table is dropped and nothing else: the refresh succeeds and leaves the
\* files it would leave had the feed held the well formed rows only.
C24_MalformedRowsOnlyDropped ==
    [][(pc = "loaded" /\ pc' = "refreshed" /\ gtfs_api.status < 400) =>
        /\ result'.outcome = "returned"
        /\ disk' = refresh_gtfs_data(
                        [gtfs_api EXCEPT !.zip = WellFormedRows(gtfs_api.zip)],
                        disk, downloads + 1, now).disk]_vars

\* The tables a load cannot do without.
RequiredTables == {"stops", "routes", "trips", "stop_times"}

\* C25 as stated: when a required table has no usable row after parsing,
\* the refresh does not report success and leaves the files as they were.
C25_EmptyRequiredTableFails ==
    [][(/\ pc = "loaded" /\ pc' = "refreshed"
        /\ gtfs_api.status < 400
        /\ ParseFeed(gtfs_api.zip).outcome = "returned"
        /\ \E t \in RequiredTables : ParseFeed(gtfs_api.zip).value[t] = <<>>) =>
        /\ result'.outcome # "returned"
        /\ disk' = disk]_vars

(***************************************************************************)
(* The dashboard's script run: _ensure_fresh_gtfs, then load_data          *)
(***************************************************************************)
max_age_hours == 24

\* The clock advances by half of max_age_hours at a time, up to MaxClock.
TickHours == max_age_hours \div 2
MaxClock == 24

\* Downloads made in one behaviour.
MaxDownloads == 2

\* The browser sessions of one script run at a time, and of two.
OneSession == {1}
TwoSessions == {1, 2}

\* The st.cache_data entry of load_data before any call and after clear().
NoTables ==
    [t \in Range(SaveOrder) |-> [feed |-> 0, rows |-> <<>>]]

EmptyCache == [full |-> FALSE, tables |-> NoTables]

\* pd.read_csv of one file: its rows, with the download they came from.
ReadCsv(file) == [feed |-> file.feed, rows |-> file.rows]

\* The six pd.read_csv calls of load_data. Its seven frames are computed
\* from these six tables and from nothing else, so the snapshot is kept as
\* the tables read.
ReadTables(files) == [t \in Range(SaveOrder) |-> ReadCsv(files[t])]

\* sentinel.exists() and age_hours < max_age_hours.
SentinelFresh(files, time) ==
    /\ files.stop_times.exists
    /\ time - files.stop_times.mtime < max_age_hours

\* A clear() that leaves the entry in place.
load_data_clear_kept(cached) == cached

\* load_data.clear().
load_data_clear(cached) == EmptyCache

\* _ensure_fresh_gtfs: nothing when the sentinel is fresh; otherwise
\* refresh_gtfs_data and, when it returned, load_data.clear(). An exception
\* of refresh_gtfs_data leaves through the caller, past the clear().
ensure_fresh_gtfs(api, files, cached, feed, time) ==
    LET refreshed == refresh_gtfs_data(api, files, feed, time)
    IN IF SentinelFresh(files, time)
       THEN [outcome |-> "None", downloaded |-> FALSE,
             disk |-> files, cache |-> cached]
       ELSE IF refreshed.outcome # "returned"
       THEN [outcome |-> refreshed.outcome, downloaded |-> TRUE,
             disk |-> refreshed.disk, cache |-> cached]
       ELSE [outcome |-> "None", downloaded |-> TRUE,
             disk |-> refreshed.disk, cache |-> load_data_clear(cached)]

\* load_data under st.cache_data: the cached snapshot when there is one;
\* otherwise the six files are read, a missing file raising
\* FileNotFoundError, and the snapshot is cached.
load_data(files, cached) ==
    IF cached.full
    THEN [outcome |-> "returned", value |-> cached.tables, cache |-> cached]
    ELSE IF \E t \in Range(SaveOrder) : ~files[t].exists
    THEN [outcome |-> "FileNotFoundError", value |-> NoTables, cache |-> cached]
    ELSE [outcome |-> "returned", value |-> ReadTables(files),
          cache |-> [full |-> TRUE, tables |-> ReadTables(files)]]

\* What the GTFS API may answer to a download: the base feed, a feed with
\* a route type that is not a number, a feed with a sequence number that is
\* not a number, or an error status.
BadRouteTypeFeed ==
    [BaseFeed EXCEPT !.routes = << BaseFeed.routes[1],
        RawRoute(<<"R", "3">>, <<"3", "5", "1">>, <<"b", "u", "s">>) >>]

BadSequenceFeed ==
    [BaseFeed EXCEPT !.stop_times = << BaseFeed.stop_times[1],
        RawStopTime(<<"T", "1">>, <<"S", "1">>, <<"x">>) >>]

Answers ==
    {[status |-> 200, zip |-> BaseFeed],
     [status |-> 200, zip |-> BadRouteTypeFeed],
     [status |-> 200, zip |-> BadSequenceFeed],
     [status |-> 503, zip |-> BaseFeed]}

\* A script run about to enter main(): its position, the number of the
\* download it made, the tables it parsed, the index of the file it saves
\* or reads next, the tables load_data gave it and the exception that
\* ended it.
AtMain ==
    [pc |-> "main", feed |-> 0, parsed |-> ReturnedNone, k |-> 0,
     snapshot |-> NoTables, error |-> "None"]

\* The server process starts: the data directory is empty or holds the
\* previous feed, nothing is cached, the session is about to run main().
InitSession ==
    /\ pc = "serving"
    /\ stops = <<>> /\ routes = <<>> /\ trips = <<>> /\ stop_times = <<>>
    /\ calendar = {} /\ calendar_dates = {}
    /\ target_date = None /\ active = {}
    /\ trip_destinations = <<>>
    /\ stations = <<>>
    /\ query = None
    /\ schedule = <<>>
    /\ display = <<>>
    /\ result = None
    /\ gtfs_api = [status |-> 200, zip |-> BaseFeed]
    /\ disk \in {MissingDisk, PreviousDisk}
    /\ cache = EmptyCache
    /\ session = [s \in OneSession |-> AtMain]
    /\ now = 0
    /\ downloads = 0

scriptVars == <<pc, feedVars, calVars, destVars, stationVars, query, schedule, display>>

\* main() calls _ensure_fresh_gtfs(); the API answers the download, if one
\* is made.
EnsureFreshGtfs(s) ==
    /\ session[s].pc = "main"
    /\ \E api \in Answers :
        \E ensured \in {ensure_fresh_gtfs(api, disk, cache, downloads + 1, now)} :
           /\ ensured.downloaded => downloads < MaxDownloads
           /\ gtfs_api' = IF ensured.downloaded THEN api ELSE gtfs_api
           /\ downloads' = IF ensured.downloaded THEN downloads + 1 ELSE downloads
           /\ disk' = ensured.disk
           /\ cache' = ensured.cache
           /\ result' = IF ensured.outcome = "None" THEN ReturnedNone
                         ELSE Raised(ensured.outcome)
           /\ session' = [session EXCEPT
                ![s].pc = IF ensured.outcome = "None" THEN "load" ELSE "raised",
                ![s].feed = IF ensured.downloaded THEN downloads + 1 ELSE 0,
                ![s].error = ensured.outcome]
    /\ UNCHANGED <<scriptVars, now>>

\* main() calls load_data() once _ensure_fresh_gtfs() has returned.
LoadData(s) ==
    LET loaded == load_data(disk, cache)
    IN /\ session[s].pc = "load"
       /\ cache' = loaded.cache
       /\ result' = IF loaded.outcome = "returned" THEN Returned(loaded.value)
                     ELSE Raised(loaded.outcome)
       /\ session' = [session EXCEPT
            ![s].pc = IF loaded.outcome = "returned" THEN "shown" ELSE "raised",
            ![s].snapshot = loaded.value,
            ![s].error = IF loaded.outcome = "returned" THEN "None"
                         ELSE loaded.outcome]
       /\ UNCHANGED <<scriptVars, gtfs_api, disk, now, downloads>>

\* Streamlit runs the script again on the next interaction, whether the
\* last run drew the page or ended in an exception.
Rerun(s) ==
    /\ session[s].pc \in {"shown", "raised"}
    /\ session' = [session EXCEPT ![s] = AtMain]
    /\ UNCHANGED <<scriptVars, result, gtfs_api, disk, cache, now, downloads>>

\* Time passes.
Tick ==
    /\ now + TickHours <= MaxClock
    /\ now' = now + TickHours
    /\ UNCHANGED <<scriptVars, result, gtfs_api, disk, cache, session, downloads>>

NextSession ==
    \/ \E s \in DOMAIN session : EnsureFreshGtfs(s)
    \/ \E s \in DOMAIN session : LoadData(s)
    \/ \E s \in DOMAIN session : Rerun(s)
    \/ Tick

SpecSession == InitSession /\ [][NextSession]_vars

(***************************************************************************)
(* Two sessions: the file and cache accesses of a script run, one at a     *)
(* time                                                                    *)
(***************************************************************************)
\* What the API answers while two sessions are served: a feed that saves
\* and one whose stop-times do not.
ReloadAnswers ==
    {[status |-> 200, zip |-> BaseFeed],
     [status |-> 200, zip |-> BadSequenceFeed]}

\* Both sessions are about to run main() in the same server process; the
\* previous feed is on disk and nothing is cached yet.
InitReload ==
    /\ pc = "serving"
    /\ stops = <<>> /\ routes = <<>> /\ trips = <<>> /\ stop_times = <<>>
    /\ calendar = {} /\ calendar_dates = {}
    /\ target_date = None /\ active = {}
    /\ trip_destinations = <<>>
    /\ stations = <<>>
    /\ query = None
    /\ schedule = <<>>
    /\ display = <<>>
    /\ result = None
    /\ gtfs_api = [status |-> 200, zip |-> BaseFeed]
    /\ disk = PreviousDisk
    /\ cache = EmptyCache
    /\ session = [s \in TwoSessions |-> AtMain]
    /\ now = 0
    /\ downloads = 0

\* _ensure_fresh_gtfs looks at the sentinel file.
CheckSentinel(s) ==
    /\ session[s].pc = "main"
    /\ session' = [session EXCEPT
            ![s].pc = IF SentinelFresh(disk, now) THEN "load" ELSE "download"]
    /\ UNCHANGED <<scriptVars, result, gtfs_api, disk, cache, now, downloads>>

\* refresh_gtfs_data up to its first save: the download and the parsing of
\* every table, which touch neither a file nor the cache.
DownloadAndParse(s) ==
    /\ session[s].pc = "download"
    /\ downloads < MaxDownloads
    /\ \E api \in ReloadAnswers :
        LET gtfs_zip == download_gtfs(api)
            parsed == ParseFeed(gtfs_zip.value)
            raised == IF gtfs_zip.outcome # "returned" THEN gtfs_zip.outcome
                      ELSE IF parsed.outcome # "returned" THEN parsed.outcome
                      ELSE "None"
        IN /\ gtfs_api' = api
           /\ downloads' = downloads + 1
           /\ session' = [session EXCEPT
                ![s].pc = IF raised # "None" THEN "raised" ELSE "save",
                ![s].feed = downloads + 1,
                ![s].parsed = IF raised # "None" THEN ReturnedNone ELSE parsed,
                ![s].k = IF raised # "None" THEN 0 ELSE 1,
                ![s].error = raised]
    /\ UNCHANGED <<scriptVars, result, disk, cache, now>>

\* One save_*_csv call of refresh_gtfs_data; after the last one
\* refresh_gtfs_data returns.
SaveCsv(s) ==
    LET table == SaveOrder[session[s].k]
        saved == SaveTable(session[s].parsed.value, table)
    IN /\ session[s].pc = "save"
       /\ disk' = [disk EXCEPT ![table] = WrittenFile(saved, session[s].feed, now)]
       /\ session' = [session EXCEPT
            ![s].pc = IF saved.outcome # "returned" THEN "raised"
                      ELSE IF session[s].k = Len(SaveOrder) THEN "clear"
                      ELSE "save",
            ![s].k = IF saved.outcome = "returned" /\ session[s].k < Len(SaveOrder)
                     THEN session[s].k + 1 ELSE 0,
            ![s].parsed = IF saved.outcome = "returned" /\ session[s].k < Len(SaveOrder)
                          THEN session[s].parsed ELSE ReturnedNone,
            ![s].error = IF saved.outcome # "returned" THEN saved.outcome
                         ELSE "None"]
       /\ UNCHANGED <<scriptVars, result, gtfs_api, cache, now, downloads>>

\* load_data.clear() at the end of _ensure_fresh_gtfs.
ClearCache(s) ==
    /\ session[s].pc = "clear"
    /\ cache' = load_data_clear(cache)
    /\ session' = [session EXCEPT ![s].pc = "load"]
    /\ UNCHANGED <<scriptVars, result, gtfs_api, disk, now, downloads>>

\* Another session is inside the body of load_data. st.cache_data lets one
\* thread at a time compute a missing entry and looks the entry up again
\* once it has the turn.
Computing(s) ==
    \E o \in DOMAIN session : o # s /\ session[o].pc \in {"read", "store"}

\* load_data is called: the cached snapshot is returned, or the body starts.
LookupCache(s) ==
    /\ session[s].pc = "load"
    /\ cache.full \/ ~Computing(s)
    /\ session' = [session EXCEPT
            ![s].pc = IF cache.full THEN "shown" ELSE "read",
            ![s].k = IF cache.full THEN 0 ELSE 1,
            ![s].snapshot = IF cache.full THEN cache.tables ELSE NoTables]
    /\ UNCHANGED <<scriptVars, result, gtfs_api, disk, cache, now, downloads>>

\* One pd.read_csv call of load_data.
ReadCsvFile(s) ==
    LET table == SaveOrder[session[s].k]
    IN /\ session[s].pc = "read"
       /\ session' = [session EXCEPT
            ![s].pc = IF ~disk[table].exists THEN "raised"
                      ELSE IF session[s].k = Len(SaveOrder) THEN "store"
                      ELSE "read",
            ![s].k = IF disk[table].exists /\ session[s].k < Len(SaveOrder)
                     THEN session[s].k + 1 ELSE 0,
            ![s].snapshot = IF disk[table].exists
                            THEN [session[s].snapshot EXCEPT ![table] = ReadCsv(disk[table])]
                            ELSE NoTables,
            ![s].error = IF disk[table].exists THEN "None"
                         ELSE "FileNotFoundError"]
       /\ UNCHANGED <<scriptVars, result, gtfs_api, disk, cache, now, downloads>>

\* load_data returns: st.cache_data stores what the body computed.
StoreSnapshot(s) ==
    /\ session[s].pc = "store"
    /\ cache' = [full |-> TRUE, tables |-> session[s].snapshot]
    /\ session' = [session EXCEPT ![s].pc = "shown"]
    /\ UNCHANGED <<scriptVars, result, gtfs_api, disk, now, downloads>>

NextReload ==
    \/ \E s \in DOMAIN session : CheckSentinel(s)
    \/ \E s \in DOMAIN session : DownloadAndParse(s)
    \/ \E s \in DOMAIN session : SaveCsv(s)
    \/ \E s \in DOMAIN session : ClearCache(s)
    \/ \E s \in DOMAIN session : LookupCache(s)
    \/ \E s \in DOMAIN session : ReadCsvFile(s)
    \/ \E s \in DOMAIN session : StoreSnapshot(s)
    \/ \E s \in DOMAIN session : Rerun(s)
    \/ Tick

SpecReload == InitReload /\ [][NextReload]_vars

\* The tables of a snapshot all come from one download.
OneDownload(tables) ==
    \A t, u \in Range(SaveOrder) : tables[t].feed = tables[u].feed

\* C22 as stated: whatever the interleaving, the snapshot load_data has
\* cached and every snapshot it has returned to a session is made of tables
\* of one single download, and at most one session at a time is rewriting
\* the files and clearing the cache.
C22_SnapshotsOfOneDownload ==
    /\ cache.full => OneDownload(cache.tables)
    /\ \A s \in DOMAIN session :
        session[s].pc = "shown" => OneDownload(session[s].snapshot)
    /\ \A s, o \in DOMAIN session :
        (session[s].pc \in {"save", "clear"} /\ session[o].pc \in {"save", "clear"})
            => s = o

\* C28: a call of _ensure_fresh_gtfs that finds the sentinel file younger
\* than max_age_hours downloads nothing and leaves the files and the cache
\* of load_data as they are; one that finds it missing or at least
\* max_age_hours old makes one download, and when it returns every one of
\* the six files has been written from that download and the cache has been
\* emptied after that; the load_data call that follows in the same run
\* returns the tables now on disk, all of that download.
C28_FreshnessGatesTheRefresh ==
    [][\A s \in DOMAIN session :
        /\ (session[s].pc = "main" /\ session'[s].pc # "main") =>
            IF SentinelFresh(disk, now)
            THEN /\ downloads' = downloads
                 /\ disk' = disk
                 /\ cache' = cache
                 /\ session'[s].pc = "load"
            ELSE /\ downloads' = downloads + 1
                 /\ session'[s].pc = "load" =>
                     /\ cache' = EmptyCache
                     /\ \A t \in Range(SaveOrder) :
                         disk'[t] = WrittenFile(
                            SaveTable(ParseFeed(gtfs_api'.zip).value, t),
                            downloads', now)
        /\ (session[s].pc = "load" /\ session[s].feed > 0
                /\ session'[s].pc # "load") =>
            /\ session'[s].pc = "shown"
            /\ result'.value = ReadTables(disk)
            /\ \A t \in Range(SaveOrder) : result'.value[t].feed = session[s].feed
            /\ cache'.tables = result'.value]_vars

\* The page was drawn from a download made when the files on disk were at
\* least max_age_hours old.
C28_Witness ==
    /\ session[1].pc = "shown"
    /\ session[1].feed = downloads /\ downloads > 0
    /\ now >= max_age_hours
    /\ result.outcome = "returned"
    /\ \A t \in Range(SaveOrder) : result.value[t].feed = downloads
    /\ cache.full /\ cache.tables = result.value

\* The page was drawn without any download: the files on disk were fresh.
C28_WitnessFresh ==
    /\ session[1].pc = "shown"
    /\ session[1].feed = 0
    /\ downloads = 0
    /\ now > 0
    /\ cache.full
    /\ result.outcome = "returned"

\* C29: when the download or the parsing of a table raises in
\* refresh_gtfs_data, no file has been written (the files are those of
\* before the call), the cache of load_data is not cleared, and the
\* exception reaches the caller of _ensure_fresh_gtfs.
C29_FailedParseWritesNothing ==
    [][\A s \in DOMAIN session :
        (/\ session[s].pc = "main" /\ session'[s].pc = "raised"
         /\ \/ download_gtfs(gtfs_api').outcome # "returned"
            \/ ParseFeed(gtfs_api'.zip).outcome # "returned") =>
            /\ disk' = disk
            /\ cache' = cache
            /\ result'.outcome \in {"HTTPError", "ValueError"}
            /\ result'.outcome =
                IF download_gtfs(gtfs_api').outcome # "returned"
                THEN download_gtfs(gtfs_api').outcome
                ELSE ParseFeed(gtfs_api'.zip).outcome]_vars

\* parse_routes raised on a stale feed that had been loaded and cached: the
\* previous feed is still on disk and still cached.
C29_Witness ==
    /\ session[1].pc = "raised"
    /\ result.outcome = "ValueError"
    /\ gtfs_api.status = 200
    /\ ParseFeed(gtfs_api.zip).outcome = "ValueError"
    /\ disk = PreviousDisk
    /\ ~SentinelFresh(disk, now)
    /\ cache.full /\ cache.tables = ReadTables(PreviousDisk)

\* The download raised: the API answered with an error status.
C29_WitnessDownload ==
    /\ session[1].pc = "raised"
    /\ result.outcome = "HTTPError"
    /\ disk = PreviousDisk
    /\ cache.full

====
